---- MODULE Spec2Model ----
(***************************************************************************)
(* gitx-mcp: the repository-resolution layer.                              *)
(*                                                                         *)
(*   repo_resolver.rs  resolve_repo / parse_remote_url / extract_owner_repo*)
(*   server.rs         resolve_owner_repo, GitxMcp::new                    *)
(*                                                                         *)
(* Text is modelled by TLA+ strings, read character by character with Len, *)
(* SubSeq and \o, so that trimming, prefix stripping and splitting are     *)
(* computed the way the Rust code computes them.                           *)
(***************************************************************************)
EXTENDS Integers, Sequences, FiniteSets, TLC

VARIABLES
    fs,             \* the file system: directory -> its .git/config
    detected_repo,  \* GitxMcp.detected_repo: Option<RepoInfo>, set by GitxMcp::new
    owner,          \* the last tool call's owner parameter: Option<String>
    repo,           \* the last tool call's repo parameter: Option<String>
    directory,      \* the last tool call's directory parameter: Option<String>
    resolved,       \* what resolve_owner_repo returned to that call
    located,        \* the directories that call invoked the Repository Locator on
    dir,            \* SpecLocator: the directory handed to resolve_repo
    info,           \* SpecLocator: the Result<RepoInfo> resolve_repo returned
    given,          \* SpecUrl: the coordinates the remote URL was written from, if any
    url,            \* SpecUrl: the remote URL handed to parse_remote_url
    path,           \* SpecUrl: the path parse_remote_url hands to extract_owner_repo
    parsed,         \* SpecUrl: the Result<RepoInfo> parse_remote_url returned
    backend,        \* SpecClient: which GitClient the call is made on
    base_url,       \* SpecClient: Config.base_url the client was built from
    verb,           \* SpecClient: the client method called
    req_path,       \* SpecClient: its path argument
    query,          \* SpecClient: its query argument (get-with-query only)
    response,       \* SpecClient: what the network does with the request
    client_result,  \* SpecClient: the Result the method returned
    tool,           \* SpecTool: the tool invoked
    client,         \* SpecTool: the client it is handed
    tool_params,    \* SpecTool: its parameters
    network,        \* SpecTool: what the network does with its 1st, 2nd, 3rd request
    tool_calls,     \* SpecTool: the client calls it awaited, in order
    tool_result,    \* SpecTool: the Result<CallToolResult> it returned
    renderer,       \* SpecFormat: the renderer called
    json_input,     \* SpecFormat: the JSON value it is called on
    rendered,       \* SpecFormat: the text it returned, or its panic
    env,            \* SpecConfig: the environment from_env reads
    git_output,     \* SpecConfig: what git prints for remote.origin.url, if it runs
    config,         \* SpecConfig: the Result<Config> from_env returned
    git_calls,      \* SpecConfig: how many times from_env ran git
    error,          \* SpecError: the GitxError a tool returned
    error_data,     \* SpecError: the ErrorData the tool boundary made of it
    srv_client,     \* SpecServer: GitxMcp.client, built from the Config by GitxMcp::new
    invocations,    \* SpecServer: the tool invocations in flight, by task
    resource_reply, \* SpecServer: what the last resource request was answered
    file_text,      \* SpecFile: the text handed to file_create / file_update
    file_wire,      \* SpecFile: the file object the backend then serves
    file_shown      \* SpecFile: what format_file_content renders of it

srvVars == <<fs, detected_repo, owner, repo, directory, resolved, located>>
locVars == <<dir, info>>
urlVars == <<given, url, path, parsed>>
resolverVars == <<srvVars, locVars, urlVars>>
cliVars == <<backend, base_url, verb, req_path, query, response, client_result>>
toolVars == <<tool, client, tool_params, network, tool_calls, tool_result>>
fmtVars == <<renderer, json_input, rendered>>
cfgVars == <<env, git_output, config, git_calls>>
errVars == <<error, error_data>>
conVars == <<srv_client, invocations, resource_reply>>
fileVars == <<file_text, file_wire, file_shown>>
moreVars == <<errVars, conVars, fileVars>>
laterVars == <<cliVars, toolVars, fmtVars, cfgVars, moreVars>>
vars == <<resolverVars, laterVars>>

(***************************************************************************)
(* Option<T> and Result<T, GitxError>                                      *)
(***************************************************************************)
None == <<>>
Some(x) == <<x>>
IsSome(o) == Len(o) = 1
Unwrap(o) == o[1]

Ok(v) == [ok |-> TRUE, val |-> v, kind |-> "", msg |-> ""]
Err(k, m) == [ok |-> FALSE, val |-> <<>>, kind |-> k, msg |-> m]

\* GitxError::RepoResolution(String)
RepoResolution(m) == Err("RepoResolution", m)

\* struct RepoInfo { owner, repo }
RepoInfo(o, r) == [owner |-> o, repo |-> r]

\* a call that has not returned yet
Pending == [ok |-> FALSE, val |-> <<>>, kind |-> "pending", msg |-> ""]

(***************************************************************************)
(* str primitives of the Rust standard library, as the code uses them      *)
(***************************************************************************)
\* char::is_whitespace, on the characters the inputs are written in
IsWhitespace(c) == c \in {" ", "\t", "\n"}

CharAt(s, i) == SubSeq(s, i, i)

\* str::starts_with
StartsWith(s, p) == Len(s) >= Len(p) /\ SubSeq(s, 1, Len(p)) = p

\* str::ends_with
EndsWith(s, p) == Len(s) >= Len(p) /\ SubSeq(s, Len(s) - Len(p) + 1, Len(s)) = p

\* str::strip_prefix -> Option<&str>
StripPrefix(s, p) ==
    IF StartsWith(s, p) THEN Some(SubSeq(s, Len(p) + 1, Len(s))) ELSE None

RECURSIVE TrimStart(_)
\* str::trim_start
TrimStart(s) ==
    IF Len(s) > 0 /\ IsWhitespace(CharAt(s, 1))
    THEN TrimStart(SubSeq(s, 2, Len(s)))
    ELSE s

RECURSIVE TrimEnd(_)
\* str::trim_end
TrimEnd(s) ==
    IF Len(s) > 0 /\ IsWhitespace(CharAt(s, Len(s)))
    THEN TrimEnd(SubSeq(s, 1, Len(s) - 1))
    ELSE s

\* str::trim
Trim(s) == TrimEnd(TrimStart(s))

RECURSIVE TrimStartMatches(_, _)
\* str::trim_start_matches(pat): every leading repetition of pat is removed
TrimStartMatches(s, p) ==
    IF Len(p) > 0 /\ StartsWith(s, p)
    THEN TrimStartMatches(SubSeq(s, Len(p) + 1, Len(s)), p)
    ELSE s

RECURSIVE TrimEndMatches(_, _)
\* str::trim_end_matches(pat): every trailing repetition of pat is removed
TrimEndMatches(s, p) ==
    IF Len(p) > 0 /\ EndsWith(s, p)
    THEN TrimEndMatches(SubSeq(s, 1, Len(s) - Len(p)), p)
    ELSE s

\* str::trim_matches(char)
TrimMatches(s, c) == TrimEndMatches(TrimStartMatches(s, c), c)

RECURSIVE Find(_, _, _)
\* str::find(char), searched from position i: the index of the first c, 0 if none
Find(s, c, i) ==
    IF i > Len(s) THEN 0
    ELSE IF CharAt(s, i) = c THEN i
    ELSE Find(s, c, i + 1)

\* str::split_once(char) -> Option<(&str, &str)>
SplitOnce(s, c) ==
    LET i == Find(s, c, 1)
    IN  IF i = 0 THEN None
        ELSE Some(<<SubSeq(s, 1, i - 1), SubSeq(s, i + 1, Len(s))>>)

RECURSIVE SplitN(_, _, _)
\* str::splitn(n, char).collect(): at most n pieces, the last one the remainder
SplitN(s, n, c) ==
    LET i == Find(s, c, 1)
    IN  IF n <= 1 \/ i = 0 THEN <<s>>
        ELSE <<SubSeq(s, 1, i - 1)>> \o SplitN(SubSeq(s, i + 1, Len(s)), n - 1, c)

RECURSIVE SplitAll(_, _)
\* str::split(char).collect(): every piece
SplitAll(s, c) ==
    LET i == Find(s, c, 1)
    IN  IF i = 0 THEN <<s>>
        ELSE <<SubSeq(s, 1, i - 1)>> \o SplitAll(SubSeq(s, i + 1, Len(s)), c)

RECURSIVE RFind(_, _, _)
\* str::rfind(char), searched down from position i: 0 if none
RFind(s, c, i) ==
    IF i < 1 THEN 0
    ELSE IF CharAt(s, i) = c THEN i
    ELSE RFind(s, c, i - 1)

RECURSIVE FindAny(_, _, _)
\* str::find(|c| set.contains(c)), from position i: 0 if none
FindAny(s, set, i) ==
    IF i > Len(s) THEN 0
    ELSE IF CharAt(s, i) \in set THEN i
    ELSE FindAny(s, set, i + 1)

RECURSIVE Join(_, _)
\* [&str]::join(sep)
Join(parts, sep) ==
    IF Len(parts) = 0 THEN ""
    ELSE IF Len(parts) = 1 THEN parts[1]
    ELSE parts[1] \o sep \o Join(Tail(parts), sep)

(***************************************************************************)
(* url::Url::parse(url) followed by Url::path(), for an http(s) URL: the   *)
(* url crate's parser (the WHATWG URL algorithm) on the characters the     *)
(* inputs are written in (ASCII letters, digits, '.', '-', '_', '/', ':',  *)
(* '@', '?', '#', ' ', tab).  None is a parse error.                       *)
(***************************************************************************)
Digits == {"0", "1", "2", "3", "4", "5", "6", "7", "8", "9"}

RECURSIVE RemoveTabs(_)
\* the parser drops ASCII tab and newline wherever they stand in the input
RemoveTabs(s) ==
    IF Len(s) = 0 THEN ""
    ELSE IF CharAt(s, 1) = "\t" THEN RemoveTabs(SubSeq(s, 2, Len(s)))
    ELSE CharAt(s, 1) \o RemoveTabs(SubSeq(s, 2, Len(s)))

RECURSIVE PercentEncodePath(_)
\* the path percent-encode set: of the input characters, only the space
PercentEncodePath(s) ==
    IF Len(s) = 0 THEN ""
    ELSE (IF CharAt(s, 1) = " " THEN "%20" ELSE CharAt(s, 1))
         \o PercentEncodePath(SubSeq(s, 2, Len(s)))

RECURSIVE DotSegments(_, _, _)
\* path state: "." is skipped and ".." removes the segment before it; either
\* one standing last leaves an empty last segment
DotSegments(segs, i, acc) ==
    IF i > Len(segs) THEN acc
    ELSE LET s    == segs[i]
             last == i = Len(segs)
             pop  == IF Len(acc) > 0 THEN SubSeq(acc, 1, Len(acc) - 1) ELSE acc
         IN  IF s = ".." THEN DotSegments(segs, i + 1, IF last THEN Append(pop, "") ELSE pop)
             ELSE IF s = "." THEN DotSegments(segs, i + 1, IF last THEN Append(acc, "") ELSE acc)
             ELSE DotSegments(segs, i + 1, Append(acc, PercentEncodePath(s)))

\* the host of a special URL: not empty, no forbidden host code point (of the
\* input characters: space, '#', '/', ':', '?', '@')
HostOk(host) ==
    /\ Len(host) > 0
    /\ FindAny(host, {" ", "#", "/", ":", "?", "@"}, 1) = 0

\* the port: empty, or decimal digits
PortOk(port) == \A i \in 1..Len(port) : CharAt(port, i) \in Digits

\* the scheme of an http(s) URL
UrlScheme(clean) == IF StartsWith(clean, "https://") THEN "https" ELSE "http"

\* what follows the scheme and the slashes after it (special authority
\* ignore slashes state), the input trimmed and its tabs dropped
UrlRest(u) ==
    LET AfterScheme(clean) ==
            TrimStartMatches(SubSeq(clean, Len(UrlScheme(clean)) + 4, Len(clean)), "/")
    IN  AfterScheme(RemoveTabs(Trim(u)))

\* the authority: up to the first '/', '?' or '#'
UrlAuthority(rest) ==
    LET e == FindAny(rest, {"/", "?", "#"}, 1)
    IN  IF e = 0 THEN rest ELSE SubSeq(rest, 1, e - 1)

\* path, query and fragment: what follows the authority
UrlTail(rest) ==
    LET e == FindAny(rest, {"/", "?", "#"}, 1)
    IN  IF e = 0 THEN "" ELSE SubSeq(rest, e, Len(rest))

\* the authority without its credentials
UrlHostPort(authority) ==
    SubSeq(authority, RFind(authority, "@", Len(authority)) + 1, Len(authority))

UrlHost(hostport) ==
    LET colon == Find(hostport, ":", 1)
    IN  IF colon = 0 THEN hostport ELSE SubSeq(hostport, 1, colon - 1)

UrlPort(hostport) ==
    LET colon == Find(hostport, ":", 1)
    IN  IF colon = 0 THEN "" ELSE SubSeq(hostport, colon + 1, Len(hostport))

\* the path as written: the tail up to '?' or '#'
UrlRawPath(tail) ==
    LET q == FindAny(tail, {"?", "#"}, 1)
    IN  IF q = 0 THEN tail ELSE SubSeq(tail, 1, q - 1)

UrlSegments(rawPath) ==
    IF Len(rawPath) = 0 THEN <<"">>
    ELSE SplitAll(SubSeq(rawPath, 2, Len(rawPath)), "/")

UrlParsePath(u) ==
    LET Parsed(hostport, tail) ==
            IF HostOk(UrlHost(hostport)) /\ PortOk(UrlPort(hostport))
            THEN Some("/" \o Join(DotSegments(UrlSegments(UrlRawPath(tail)), 1, <<>>), "/"))
            ELSE None
        Rest(rest) == Parsed(UrlHostPort(UrlAuthority(rest)), UrlTail(rest))
    IN  Rest(UrlRest(u))

(***************************************************************************)
(* repo_resolver.rs                                                        *)
(***************************************************************************)
\* extract_owner_repo with the fault of reading the last two segments
\* (rsplitn in place of splitn)
extract_owner_repo_last_two(p) ==
    LET cleaned == TrimMatches(TrimEndMatches(p, ".git"), "/")
        parts   == SplitAll(cleaned, "/")
    IN  IF Len(parts) < 2
        THEN RepoResolution("Cannot extract owner/repo from path: " \o cleaned)
        ELSE Ok(RepoInfo(parts[Len(parts) - 1], parts[Len(parts)]))

\* fn extract_owner_repo(path) -> Result<RepoInfo>
extract_owner_repo(p) ==
    LET cleaned == TrimMatches(TrimEndMatches(p, ".git"), "/")
        parts   == SplitN(cleaned, 3, "/")
    IN  IF Len(parts) < 2
        THEN RepoResolution("Cannot extract owner/repo from path: " \o cleaned)
        ELSE Ok(RepoInfo(parts[1], parts[2]))

\* RemotePath with the fault of an ssh:// branch that keeps the authority
\* (strip_prefix without the split_once)
RemotePath_ssh_keeps_host(u) ==
    LET t      == Trim(u)
        scp    == IF IsSome(StripPrefix(t, "git@"))
                  THEN SplitOnce(Unwrap(StripPrefix(t, "git@")), ":")
                  ELSE None
        http   == IF StartsWith(t, "http://") \/ StartsWith(t, "https://")
                  THEN UrlParsePath(t)
                  ELSE None
    IN  IF IsSome(scp) THEN Unwrap(scp)[2]
        ELSE IF StartsWith(t, "ssh://") THEN Unwrap(StripPrefix(t, "ssh://"))
        ELSE IF IsSome(http) THEN TrimStartMatches(Unwrap(http), "/")
        ELSE t

\* parse_remote_url, up to the call of extract_owner_repo: the path each
\* branch hands over
RemotePath(u) ==
    LET t      == Trim(u)
        scp    == IF IsSome(StripPrefix(t, "git@"))
                  THEN SplitOnce(Unwrap(StripPrefix(t, "git@")), ":")
                  ELSE None
        sshUri == IF StartsWith(t, "ssh://")
                  THEN SplitOnce(Unwrap(StripPrefix(t, "ssh://")), "/")
                  ELSE None
        http   == IF StartsWith(t, "http://") \/ StartsWith(t, "https://")
                  THEN UrlParsePath(t)
                  ELSE None
    IN  IF IsSome(scp) THEN Unwrap(scp)[2]
        ELSE IF IsSome(sshUri) THEN Unwrap(sshUri)[2]
        ELSE IF IsSome(http) THEN TrimStartMatches(Unwrap(http), "/")
        ELSE t

\* fn parse_remote_url(url) -> Result<RepoInfo>
parse_remote_url(u) == extract_owner_repo(RemotePath(u))

\* what a directory's .git/config can be: a text file (its lines), absent, or
\* present but not readable as text
NoFile == [kind |-> "absent", lines |-> <<>>]
Unreadable == [kind |-> "unreadable", lines |-> <<>>]
File(lines) == [kind |-> "file", lines |-> lines]

OriginHeader == "[remote \"origin\"]"

\* resolve_repo's closure on a trimmed line: Some(value) for `url = value`
UrlValue(trimmed) ==
    LET a == StripPrefix(trimmed, "url")
        b == IF IsSome(a) THEN StripPrefix(TrimStart(Unwrap(a)), "=") ELSE None
    IN  IF IsSome(b) THEN Some(Trim(Unwrap(b))) ELSE None

RECURSIVE ScanOrigin_sticky(_, _, _)
\* ScanOrigin with the fault of a flag that a later section header never clears
ScanOrigin_sticky(lines, i, in_origin) ==
    IF i > Len(lines)
    THEN RepoResolution("No remote 'origin' URL found in .git/config")
    ELSE LET trimmed == Trim(lines[i])
         IN  IF StartsWith(trimmed, "[")
             THEN ScanOrigin_sticky(lines, i + 1, in_origin \/ trimmed = OriginHeader)
             ELSE IF in_origin /\ IsSome(UrlValue(trimmed))
             THEN parse_remote_url(Unwrap(UrlValue(trimmed)))
             ELSE ScanOrigin_sticky(lines, i + 1, in_origin)

RECURSIVE ScanOrigin_skips_unparseable(_, _, _)
\* ScanOrigin with the fault of going on to the next line when the url found
\* does not parse
ScanOrigin_skips_unparseable(lines, i, in_origin) ==
    IF i > Len(lines)
    THEN RepoResolution("No remote 'origin' URL found in .git/config")
    ELSE LET trimmed == Trim(lines[i])
         IN  IF StartsWith(trimmed, "[")
             THEN ScanOrigin_skips_unparseable(lines, i + 1, trimmed = OriginHeader)
             ELSE IF /\ in_origin
                     /\ IsSome(UrlValue(trimmed))
                     /\ parse_remote_url(Unwrap(UrlValue(trimmed))).ok
             THEN parse_remote_url(Unwrap(UrlValue(trimmed)))
             ELSE ScanOrigin_skips_unparseable(lines, i + 1, in_origin)

RECURSIVE ScanOrigin(_, _, _)
\* resolve_repo's loop over content.lines(), from line i with the flag in_origin
ScanOrigin(lines, i, in_origin) ==
    IF i > Len(lines)
    THEN RepoResolution("No remote 'origin' URL found in .git/config")
    ELSE LET trimmed == Trim(lines[i])
         IN  IF StartsWith(trimmed, "[")
             THEN ScanOrigin(lines, i + 1, trimmed = OriginHeader)
             ELSE IF in_origin /\ IsSome(UrlValue(trimmed))
             THEN parse_remote_url(Unwrap(UrlValue(trimmed)))
             ELSE ScanOrigin(lines, i + 1, in_origin)

\* fn resolve_repo(directory) -> Result<RepoInfo>, reading the file system f
resolve_repo(f, d) ==
    LET file == IF d \in DOMAIN f THEN f[d] ELSE NoFile
    IN  IF file.kind = "absent"
        THEN RepoResolution("No .git/config found in " \o d)
        ELSE IF file.kind = "unreadable"
        THEN RepoResolution("Failed to read .git/config: io error")
        ELSE ScanOrigin(file.lines, 1, FALSE)

(***************************************************************************)
(* server.rs                                                               *)
(***************************************************************************)
\* what one call of resolve_owner_repo returns, with the Locator invocations
\* it made on the way
Outcome(r, l) == [result |-> r, located |-> l]

\* Result<RepoInfo> -> Result<(String, String)>: `?` then Ok((info.owner, info.repo))
OwnerRepoOf(r) == IF r.ok THEN Ok(<<r.val.owner, r.val.repo>>) ELSE r

\* resolve_owner_repo with the fault of trying the directory before the
\* explicit pair
resolve_owner_repo_directory_first(f, o, r, d, default_repo) ==
    IF IsSome(d) /\ Unwrap(d) # ""
    THEN Outcome(OwnerRepoOf(resolve_repo(f, Unwrap(d))), <<Unwrap(d)>>)
    ELSE IF IsSome(o) /\ IsSome(r) /\ Unwrap(o) # "" /\ Unwrap(r) # ""
    THEN Outcome(Ok(<<Unwrap(o), Unwrap(r)>>), <<>>)
    ELSE IF IsSome(default_repo)
    THEN Outcome(Ok(<<Unwrap(default_repo).owner, Unwrap(default_repo).repo>>), <<>>)
    ELSE Outcome(OwnerRepoOf(resolve_repo(f, ".")), <<".">>)

\* resolve_owner_repo with the fault of a missing is_empty guard on the pair
resolve_owner_repo_no_empty_guard(f, o, r, d, default_repo) ==
    IF IsSome(o) /\ IsSome(r)
    THEN Outcome(Ok(<<Unwrap(o), Unwrap(r)>>), <<>>)
    ELSE IF IsSome(d) /\ Unwrap(d) # ""
    THEN Outcome(OwnerRepoOf(resolve_repo(f, Unwrap(d))), <<Unwrap(d)>>)
    ELSE IF IsSome(default_repo)
    THEN Outcome(Ok(<<Unwrap(default_repo).owner, Unwrap(default_repo).repo>>), <<>>)
    ELSE Outcome(OwnerRepoOf(resolve_repo(f, ".")), <<".">>)

\* resolve_owner_repo with the fault of falling back to the cached default
\* when the directory does not resolve
resolve_owner_repo_directory_fallback(f, o, r, d, default_repo) ==
    IF IsSome(o) /\ IsSome(r) /\ Unwrap(o) # "" /\ Unwrap(r) # ""
    THEN Outcome(Ok(<<Unwrap(o), Unwrap(r)>>), <<>>)
    ELSE IF IsSome(d) /\ Unwrap(d) # "" /\ (resolve_repo(f, Unwrap(d)).ok \/ ~IsSome(default_repo))
    THEN Outcome(OwnerRepoOf(resolve_repo(f, Unwrap(d))), <<Unwrap(d)>>)
    ELSE IF IsSome(default_repo)
    THEN Outcome(Ok(<<Unwrap(default_repo).owner, Unwrap(default_repo).repo>>), <<>>)
    ELSE Outcome(OwnerRepoOf(resolve_repo(f, ".")), <<".">>)

\* resolve_owner_repo with the fault of detecting the working directory again
\* before the cached default is used
resolve_owner_repo_cwd_first(f, o, r, d, default_repo) ==
    IF IsSome(o) /\ IsSome(r) /\ Unwrap(o) # "" /\ Unwrap(r) # ""
    THEN Outcome(Ok(<<Unwrap(o), Unwrap(r)>>), <<>>)
    ELSE IF IsSome(d) /\ Unwrap(d) # ""
    THEN Outcome(OwnerRepoOf(resolve_repo(f, Unwrap(d))), <<Unwrap(d)>>)
    ELSE IF resolve_repo(f, ".").ok \/ ~IsSome(default_repo)
    THEN Outcome(OwnerRepoOf(resolve_repo(f, ".")), <<".">>)
    ELSE Outcome(Ok(<<Unwrap(default_repo).owner, Unwrap(default_repo).repo>>), <<>>)

\* fn resolve_owner_repo(owner, repo, directory, default_repo), reading the
\* file system f
resolve_owner_repo(f, o, r, d, default_repo) ==
    IF IsSome(o) /\ IsSome(r) /\ Unwrap(o) # "" /\ Unwrap(r) # ""
    THEN Outcome(Ok(<<Unwrap(o), Unwrap(r)>>), <<>>)
    ELSE IF IsSome(d) /\ Unwrap(d) # ""
    THEN Outcome(OwnerRepoOf(resolve_repo(f, Unwrap(d))), <<Unwrap(d)>>)
    ELSE IF IsSome(default_repo)
    THEN Outcome(Ok(<<Unwrap(default_repo).owner, Unwrap(default_repo).repo>>), <<>>)
    ELSE Outcome(OwnerRepoOf(resolve_repo(f, ".")), <<".">>)

\* GitxMcp::new: the startup detection in the working directory
DetectRepo(f) ==
    LET r == resolve_repo(f, ".") IN IF r.ok THEN Some(r.val) ELSE None

(***************************************************************************)
(* Spec: the server.  The file system holds two directories that can carry *)
(* a .git/config (the working directory "." and "/repo") and one path that *)
(* never exists; the server is constructed over any such file system, tool *)
(* calls resolve their repository, and the files may be rewritten while    *)
(* the server runs.                                                        *)
(***************************************************************************)
Dirs == {".", "/repo", "/nonexistent"}
RepoDirs == {".", "/repo"}

ServerFiles ==
    { NoFile,
      Unreadable,
      File(<<OriginHeader, "\turl = git@h:myorg/myproject.git">>),
      File(<<"[core]", "\tbare = false", OriginHeader,
             "\turl = https://h/dir-owner/dir-repo.git">>),
      File(<<"[core]", "\tbare = false">>),
      File(<<OriginHeader, "\turl = proj">>),
      File(<<OriginHeader, "url=org//proj">>) }

OwnerParams == {None, Some(""), Some("alice")}
RepoParams == {None, Some(""), Some("my-repo")}
DirectoryParams == {None, Some("")} \cup {Some(d) : d \in Dirs}

IdleLocator == dir = "" /\ info = Pending
IdleUrl == given = None /\ url = "" /\ path = None /\ parsed = Pending
IdleCall ==
    /\ owner = None /\ repo = None /\ directory = None
    /\ resolved = Pending /\ located = <<>>
IdleClient ==
    /\ backend = "" /\ base_url = "" /\ verb = "" /\ req_path = ""
    /\ query = <<>> /\ response = <<>> /\ client_result = Pending
IdleTool ==
    /\ tool = "" /\ client = <<>> /\ tool_params = <<>> /\ network = <<>>
    /\ tool_calls = <<>> /\ tool_result = Pending
IdleFormat == renderer = "" /\ json_input = <<>> /\ rendered = Pending
IdleConfig == env = <<>> /\ git_output = None /\ config = Pending /\ git_calls = 0
IdleError == error = <<>> /\ error_data = None
IdleServer == srv_client = <<>> /\ invocations = <<>> /\ resource_reply = None
IdleFile == file_text = "" /\ file_wire = <<>> /\ file_shown = None
IdleMore == IdleError /\ IdleServer /\ IdleFile
IdleLater == IdleClient /\ IdleTool /\ IdleFormat /\ IdleConfig /\ IdleMore

Init ==
    /\ fs \in [Dirs -> ServerFiles]
    /\ fs["/nonexistent"] = NoFile
    /\ detected_repo = DetectRepo(fs)
    /\ IdleCall
    /\ IdleLocator
    /\ IdleUrl
    /\ IdleLater

\* a tool is invoked and runs the resolution step every repository-scoped
\* tool starts with:
\* resolve_owner_repo(&p.owner, &p.repo, &p.directory, self.detected_repo.as_ref())
ToolCall(o, r, d) ==
    LET out == resolve_owner_repo(fs, o, r, d, detected_repo)
    IN  /\ resolved = Pending
        /\ owner' = o
        /\ repo' = r
        /\ directory' = d
        /\ resolved' = out.result
        /\ located' = out.located
        /\ UNCHANGED <<fs, detected_repo, locVars, urlVars, laterVars>>

\* the invocation ends and its parameters and result go out of scope
ToolReturn ==
    /\ resolved # Pending
    /\ owner' = None /\ repo' = None /\ directory' = None
    /\ resolved' = Pending /\ located' = <<>>
    /\ UNCHANGED <<fs, detected_repo, locVars, urlVars, laterVars>>

\* between invocations the environment rewrites or removes a directory's
\* .git/config
WriteGitConfig(d, file) ==
    /\ resolved = Pending
    /\ fs[d] # file
    /\ fs' = [fs EXCEPT ![d] = file]
    /\ UNCHANGED <<detected_repo, owner, repo, directory, resolved, located,
                   locVars, urlVars, laterVars>>

Next ==
    \/ \E o \in OwnerParams, r \in RepoParams, d \in DirectoryParams : ToolCall(o, r, d)
    \/ ToolReturn
    \/ \E d \in RepoDirs, file \in ServerFiles : WriteGitConfig(d, file)

Spec == Init /\ [][Next]_vars

(***************************************************************************)
(* SpecLocator: resolve_repo applied to a directory whose .git/config is   *)
(* drawn from the files of at most MaxConfigLines lines.                   *)
(***************************************************************************)
MaxConfigLines == 3

ConfigLines ==
    { OriginHeader, "  [remote \"origin\"]  ", "[remote \"upstream\"]", "[core]",
      "\turl = git@h:org/proj.git", "url=https://h/team/app", "url = solo",
      "url = https://h/org//proj",
      "urls = x/y", "fetch = +refs/heads/*" }

RECURSIVE SeqsUpTo(_, _)
\* every sequence of at most n elements of S
SeqsUpTo(S, n) ==
    IF n = 0 THEN {<<>>}
    ELSE LET P == SeqsUpTo(S, n - 1) IN P \cup {Append(q, x) : q \in P, x \in S}

LocatorFiles == {NoFile, Unreadable} \cup {File(l) : l \in SeqsUpTo(ConfigLines, MaxConfigLines)}

InitLocator ==
    /\ \E file \in LocatorFiles :
         fs = [d \in Dirs |-> IF d = "." THEN file ELSE NoFile]
    /\ detected_repo = None
    /\ IdleCall
    /\ IdleLocator
    /\ IdleUrl
    /\ IdleLater

\* one call of resolve_repo(d)
ResolveRepo(d) ==
    /\ info = Pending
    /\ dir' = d
    /\ info' = resolve_repo(fs, d)
    /\ UNCHANGED <<srvVars, urlVars, laterVars>>

NextLocator == \E d \in Dirs : ResolveRepo(d)

SpecLocator == InitLocator /\ [][NextLocator]_vars

(***************************************************************************)
(* SpecUrl: parse_remote_url applied to remote URLs drawn from bounded     *)
(* sets: URLs put together from path tokens behind each kind of prefix,    *)
(* and URLs written from known coordinates in each documented form.        *)
(***************************************************************************)
MaxPathTokens == 5
MaxNameTokens == 2

PathTokens == {"o", "n", "/", ".git"}
NameTokens == {"org", "proj", ".git"}
UrlPrefixes == {"", "git@h:", "ssh://git@h/", "https://h/"}

RECURSIVE Words(_, _)
\* every concatenation of at most n tokens
Words(T, n) ==
    IF n = 0 THEN {""}
    ELSE LET W == Words(T, n - 1) IN W \cup {w \o t : w \in W, t \in T}

HandUrls ==
    { "  git@h:o/n.git ", "git@h", "git@h:o", "ssh://h", "ssh://git@h",
      "http://h/o/n.git", "https://h", "https://h:8443/o/n", "https://h:/o/n",
      "https://u@h/o/n.git", "https://h:x/o/n", "https:///o/n", "https://h/o/n?x/y",
      "https://h/o/./n", "https://h/o/../n", "https://h/o/n/..", "https://h/o n/x",
      "https://h h/o/n", "https://h/o/n.git/", "\thttps://h/o/n", "h:o/n", "o/n.git/" }

InputUrls == {p \o w : p \in UrlPrefixes, w \in Words(PathTokens, MaxPathTokens)} \cup HandUrls

Users == {"git", "alice"}
Hosts == {"h", "git.example.com"}
Names == (Words(NameTokens, MaxNameTokens) \ {""}) \cup {".", "..", "a b", "x?y"}
Forms == {"scp_git", "scp", "ssh_git", "https_git", "https"}

\* the remote URL of repository o/n on host h, in each documented form
FormUrl(f, u, h, o, n) ==
    CASE f = "scp_git"   -> u \o "@" \o h \o ":" \o o \o "/" \o n \o ".git"
      [] f = "scp"       -> u \o "@" \o h \o ":" \o o \o "/" \o n
      [] f = "ssh_git"   -> "ssh://" \o u \o "@" \o h \o "/" \o o \o "/" \o n \o ".git"
      [] f = "https_git" -> "https://" \o h \o "/" \o o \o "/" \o n \o ".git"
      [] f = "https"     -> "https://" \o h \o "/" \o o \o "/" \o n

InitUrl ==
    /\ \/ given = None /\ url \in InputUrls
       \/ \E f \in Forms, u \in Users, h \in Hosts, o \in Names, n \in Names :
            /\ given = Some([form |-> f, user |-> u, host |-> h, owner |-> o, name |-> n])
            /\ url = FormUrl(f, u, h, o, n)
    /\ path = None
    /\ parsed = Pending
    /\ fs = [d \in Dirs |-> NoFile]
    /\ detected_repo = None
    /\ IdleCall
    /\ IdleLocator
    /\ IdleLater

\* one call of parse_remote_url(url)
ParseRemoteUrl ==
    /\ parsed = Pending
    /\ path' = Some(RemotePath(url))
    /\ parsed' = parse_remote_url(url)
    /\ UNCHANGED <<given, url, srvVars, locVars, laterVars>>

NextUrl == ParseRemoteUrl

SpecUrl == InitUrl /\ [][NextUrl]_vars

(***************************************************************************)
(* serde_json::Value                                                       *)
(***************************************************************************)
JNull == [t |-> "null"]
JBool(b) == [t |-> "bool", b |-> b]
JNum(n) == [t |-> "num", n |-> n]
JStr(s) == [t |-> "str", s |-> s]
JArr(a) == [t |-> "arr", a |-> a]
\* an object is its entries <<key, value>> in key order (serde_json's Map
\* iterates in key order)
JObj(m) == [t |-> "obj", m |-> m]

\* Value::get(key): the entry of an object, None for anything else
JGet(v, k) ==
    IF v.t = "obj" /\ \E i \in 1..Len(v.m) : v.m[i][1] = k
    THEN Some(v.m[CHOOSE i \in 1..Len(v.m) : v.m[i][1] = k][2])
    ELSE None

\* Option<&Value>::and_then(|v| v.get(key))
AndThenGet(o, k) == IF IsSome(o) THEN JGet(Unwrap(o), k) ELSE None

\* Option<&Value>::and_then(|v| v.as_str())
AsStr(o) == IF IsSome(o) /\ Unwrap(o).t = "str" THEN Some(Unwrap(o).s) ELSE None

\* Option<&Value>::and_then(|v| v.as_i64())
AsI64(o) == IF IsSome(o) /\ Unwrap(o).t = "num" THEN Some(Unwrap(o).n) ELSE None

\* Option<&Value>::and_then(|v| v.as_bool())
AsBool(o) == IF IsSome(o) /\ Unwrap(o).t = "bool" THEN Some(Unwrap(o).b) ELSE None

\* Option<&Value>::and_then(|v| v.as_array())
AsArray(o) == IF IsSome(o) /\ Unwrap(o).t = "arr" THEN Some(Unwrap(o).a) ELSE None

\* Option::unwrap_or
UnwrapOr(o, d) == IF IsSome(o) THEN Unwrap(o) ELSE d

\* Ord::min
MinI64(a, b) == IF a < b THEN a ELSE b

\* i64's Display
RECURSIVE NatToString(_)
NatToString(n) ==
    IF n < 10 THEN SubSeq("0123456789", n + 1, n + 1)
    ELSE NatToString(n \div 10) \o SubSeq("0123456789", (n % 10) + 1, (n % 10) + 1)

I64ToString(n) == IF n < 0 THEN "-" \o NatToString(0 - n) ELSE NatToString(n)

\* arr.iter().filter_map(|l| l.get(key).and_then(|v| v.as_str())).collect()
RECURSIVE FilterNames(_, _)
FilterNames(arr, k) ==
    IF Len(arr) = 0 THEN <<>>
    ELSE (IF IsSome(AsStr(JGet(arr[1], k))) THEN <<Unwrap(AsStr(JGet(arr[1], k)))>> ELSE <<>>)
         \o FilterNames(Tail(arr), k)

(***************************************************************************)
(* response.rs: the entity renderers                                       *)
(***************************************************************************)
\* if let Some(x) = ... { parts.push(format!("{prefix}{x}")) }
PushSome(prefix, o) == IF IsSome(o) THEN <<prefix \o Unwrap(o)>> ELSE <<>>

\* if !names.is_empty() { parts.push(format!("{prefix}{}", names.join(", "))) }
PushNames(prefix, names) ==
    IF Len(names) > 0 THEN <<prefix \o Join(names, ", ")>> ELSE <<>>

\* if let Some(arr) = v.get(field).and_then(|v| v.as_array()) { names of arr }
NamesOf(v, field, k) ==
    IF IsSome(AsArray(JGet(v, field)))
    THEN FilterNames(Unwrap(AsArray(JGet(v, field))), k)
    ELSE <<>>

\* the body, pushed behind a newline when it is a non-empty string
PushBody(o) == IF IsSome(o) /\ Unwrap(o) # "" THEN <<"\n" \o Unwrap(o)>> ELSE <<>>

\* a title that is not a string is rendered as nothing
format_issue_blank_title(issue) ==
    Join((IF IsSome(AsI64(JGet(issue, "number")))
          THEN <<"## #" \o I64ToString(Unwrap(AsI64(JGet(issue, "number")))) \o " "
                   \o UnwrapOr(AsStr(JGet(issue, "title")), "")
                   \o " [" \o UnwrapOr(AsStr(JGet(issue, "state")), "unknown") \o "]">>
          ELSE <<>>)
         \o PushSome("**Author:** ", AsStr(AndThenGet(JGet(issue, "user"), "login")))
         \o PushNames("**Labels:** ", NamesOf(issue, "labels", "name"))
         \o PushNames("**Assignees:** ", NamesOf(issue, "assignees", "login"))
         \o PushSome("**Milestone:** ", AsStr(AndThenGet(JGet(issue, "milestone"), "title")))
         \o PushSome("**Created:** ", AsStr(JGet(issue, "created_at")))
         \o PushSome("**Updated:** ", AsStr(JGet(issue, "updated_at")))
         \o PushBody(AsStr(JGet(issue, "body"))),
         "\n")

format_issue(issue) ==
    Join((IF IsSome(AsI64(JGet(issue, "number")))
          THEN <<"## #" \o I64ToString(Unwrap(AsI64(JGet(issue, "number")))) \o " "
                   \o UnwrapOr(AsStr(JGet(issue, "title")), "(untitled)")
                   \o " [" \o UnwrapOr(AsStr(JGet(issue, "state")), "unknown") \o "]">>
          ELSE <<>>)
         \o PushSome("**Author:** ", AsStr(AndThenGet(JGet(issue, "user"), "login")))
         \o PushNames("**Labels:** ", NamesOf(issue, "labels", "name"))
         \o PushNames("**Assignees:** ", NamesOf(issue, "assignees", "login"))
         \o PushSome("**Milestone:** ", AsStr(AndThenGet(JGet(issue, "milestone"), "title")))
         \o PushSome("**Created:** ", AsStr(JGet(issue, "created_at")))
         \o PushSome("**Updated:** ", AsStr(JGet(issue, "updated_at")))
         \o PushBody(AsStr(JGet(issue, "body"))),
         "\n")

\* one line of format_issue_list
IssueListItem(issue) ==
    "- #" \o I64ToString(UnwrapOr(AsI64(JGet(issue, "number")), 0)) \o " "
    \o UnwrapOr(AsStr(JGet(issue, "title")), "(untitled)")
    \o " (" \o UnwrapOr(AsStr(JGet(issue, "state")), "unknown") \o ")"
    \o (IF Join(NamesOf(issue, "labels", "name"), ", ") = "" THEN ""
        ELSE " [" \o Join(NamesOf(issue, "labels", "name"), ", ") \o "]")

RECURSIVE MapIssueListItem(_)
MapIssueListItem(issues) ==
    IF Len(issues) = 0 THEN <<>>
    ELSE <<IssueListItem(issues[1])>> \o MapIssueListItem(Tail(issues))

format_issue_list(issues) ==
    IF Len(issues) = 0 THEN "No issues found."
    ELSE Join(MapIssueListItem(issues), "\n")

\* bool's Display
BoolToString(b) == IF b THEN "true" ELSE "false"

\* the branch line: pushed when head.label is a string
PushBranch(pr) ==
    IF IsSome(AsStr(AndThenGet(JGet(pr, "head"), "label")))
    THEN <<"**Branch:** " \o Unwrap(AsStr(AndThenGet(JGet(pr, "head"), "label"))) \o " -> "
             \o UnwrapOr(AsStr(AndThenGet(JGet(pr, "base"), "label")), "?")>>
    ELSE <<>>

format_pull_request(pr) ==
    Join((IF IsSome(AsI64(JGet(pr, "number")))
          THEN <<"## PR #" \o I64ToString(Unwrap(AsI64(JGet(pr, "number")))) \o " "
                   \o UnwrapOr(AsStr(JGet(pr, "title")), "(untitled)")
                   \o " [" \o UnwrapOr(AsStr(JGet(pr, "state")), "unknown") \o "]">>
          ELSE <<>>)
         \o PushSome("**Author:** ", AsStr(AndThenGet(JGet(pr, "user"), "login")))
         \o PushBranch(pr)
         \o (IF IsSome(AsBool(JGet(pr, "mergeable")))
             THEN <<"**Mergeable:** " \o BoolToString(Unwrap(AsBool(JGet(pr, "mergeable"))))>>
             ELSE <<>>)
         \o PushNames("**Labels:** ", NamesOf(pr, "labels", "name"))
         \o PushSome("**Created:** ", AsStr(JGet(pr, "created_at")))
         \o PushBody(AsStr(JGet(pr, "body"))),
         "\n")

\* one line of format_pr_list
PrListItem(pr) ==
    "- PR #" \o I64ToString(UnwrapOr(AsI64(JGet(pr, "number")), 0)) \o " "
    \o UnwrapOr(AsStr(JGet(pr, "title")), "(untitled)")
    \o " (" \o UnwrapOr(AsStr(JGet(pr, "state")), "unknown") \o ")"

RECURSIVE MapPrListItem(_)
MapPrListItem(prs) ==
    IF Len(prs) = 0 THEN <<>>
    ELSE <<PrListItem(prs[1])>> \o MapPrListItem(Tail(prs))

format_pr_list(prs) ==
    IF Len(prs) = 0 THEN "No pull requests found."
    ELSE Join(MapPrListItem(prs), "\n")

(***************************************************************************)
(* response.rs: format_value, format_object, format_field                  *)
(***************************************************************************)
\* serde_json's string escaping, on the characters the inputs are written in
RECURSIVE JsonEscape(_)
JsonEscape(s) ==
    IF Len(s) = 0 THEN ""
    ELSE (CASE CharAt(s, 1) = "\"" -> "\\\""
            [] CharAt(s, 1) = "\\" -> "\\\\"
            [] CharAt(s, 1) = "\n" -> "\\n"
            [] OTHER -> CharAt(s, 1))
         \o JsonEscape(SubSeq(s, 2, Len(s)))

\* Value::to_string(): the compact JSON text of a value
RECURSIVE JsonToString(_)
RECURSIVE JsonItems(_)
RECURSIVE JsonEntries(_)
JsonToString(v) ==
    CASE v.t = "null" -> "null"
      [] v.t = "bool" -> BoolToString(v.b)
      [] v.t = "num" -> I64ToString(v.n)
      [] v.t = "str" -> "\"" \o JsonEscape(v.s) \o "\""
      [] v.t = "arr" -> "[" \o JsonItems(v.a) \o "]"
      [] v.t = "obj" -> "{" \o JsonEntries(v.m) \o "}"

JsonItems(a) ==
    IF Len(a) = 0 THEN ""
    ELSE JsonToString(a[1]) \o (IF Len(a) = 1 THEN "" ELSE "," \o JsonItems(Tail(a)))

JsonEntries(m) ==
    IF Len(m) = 0 THEN ""
    ELSE "\"" \o JsonEscape(m[1][1]) \o "\":" \o JsonToString(m[1][2])
         \o (IF Len(m) = 1 THEN "" ELSE "," \o JsonEntries(Tail(m)))

\* m.get(k1).or_else(|| m.get(k2))...: the entry of the first key present
RECURSIVE FirstPresent(_, _)
FirstPresent(v, keys) ==
    IF Len(keys) = 0 THEN None
    ELSE IF IsSome(JGet(v, keys[1])) THEN JGet(v, keys[1])
    ELSE FirstPresent(v, Tail(keys))

\* the filter_map of format_field over the items of an array
RECURSIVE FieldItems(_)
FieldItems(arr) ==
    IF Len(arr) = 0 THEN <<>>
    ELSE (CASE arr[1].t = "str" -> <<arr[1].s>>
            [] arr[1].t = "obj" ->
                 PushSome("", AsStr(FirstPresent(arr[1], <<"name", "title", "login">>)))
            [] OTHER -> <<JsonToString(arr[1])>>)
         \o FieldItems(Tail(arr))

format_field(key, value) ==
    CASE value.t = "null" -> ""
      [] value.t = "str" -> IF value.s = "" THEN "" ELSE "**" \o key \o ":** " \o value.s
      [] value.t = "num" -> "**" \o key \o ":** " \o I64ToString(value.n)
      [] value.t = "bool" -> "**" \o key \o ":** " \o BoolToString(value.b)
      [] value.t = "arr" ->
           IF Len(value.a) = 0 \/ Len(FieldItems(value.a)) = 0 THEN ""
           ELSE "**" \o key \o ":** " \o Join(FieldItems(value.a), ", ")
      [] value.t = "obj" ->
           IF IsSome(AsStr(FirstPresent(value, <<"login", "name", "title", "full_name">>)))
           THEN "**" \o key \o ":** "
                \o Unwrap(AsStr(FirstPresent(value, <<"login", "name", "title", "full_name">>)))
           ELSE ""

\* the lines of format_object: the fields whose text is not empty
RECURSIVE FieldLines(_)
FieldLines(m) ==
    IF Len(m) = 0 THEN <<>>
    ELSE (IF format_field(m[1][1], m[1][2]) # "" THEN <<format_field(m[1][1], m[1][2])>>
          ELSE <<>>)
         \o FieldLines(Tail(m))

format_object(val) ==
    IF val.t = "obj" THEN Join(FieldLines(val.m), "\n") ELSE JsonToString(val)

RECURSIVE MapFormatObject(_)
MapFormatObject(arr) ==
    IF Len(arr) = 0 THEN <<>>
    ELSE <<format_object(arr[1])>> \o MapFormatObject(Tail(arr))

format_value(val) ==
    CASE val.t = "null" -> "No data returned."
      [] val.t = "arr" ->
           IF Len(val.a) = 0 THEN "No items found."
           ELSE Join(MapFormatObject(val.a), "\n---\n")
      [] val.t = "obj" -> format_object(val)
      [] OTHER -> JsonToString(val)

(***************************************************************************)
(* response.rs: comments, commits, branches.  A renderer returns           *)
(* Rendered(text), or panics.                                              *)
(***************************************************************************)
Rendered(text) == Ok(text)
Panicked(m) == Err("panic", m)

\* char::len_utf8, on the characters the inputs are written in
Utf8Len(c) == CASE c = "é" -> 2 [] c = "€" -> 3 [] OTHER -> 1

\* str::len: the length in bytes
RECURSIVE ByteLen(_)
ByteLen(s) == IF Len(s) = 0 THEN 0 ELSE Utf8Len(CharAt(s, 1)) + ByteLen(SubSeq(s, 2, Len(s)))

\* &s[..n]: the prefix of n bytes; None is the panic "byte index n is not a
\* char boundary"
SliceTo(s, n) ==
    IF \E k \in 0..Len(s) : ByteLen(SubSeq(s, 1, k)) = n
    THEN Some(SubSeq(s, 1, CHOOSE k \in 0..Len(s) : ByteLen(SubSeq(s, 1, k)) = n))
    ELSE None

\* .map(|s| &s[..7.min(s.len())])
ShaPrefix(s) == SliceTo(s, MinI64(7, ByteLen(s)))

\* .lines().next().unwrap_or("")
FirstLine(s) ==
    LET Line(l) == IF EndsWith(l, "\r") THEN SubSeq(l, 1, Len(l) - 1) ELSE l
    IN  IF Find(s, "\n", 1) = 0 THEN Line(s) ELSE Line(SubSeq(s, 1, Find(s, "\n", 1) - 1))

format_comment(comment) ==
    "**Comment #" \o I64ToString(UnwrapOr(AsI64(JGet(comment, "id")), 0)) \o "** by "
    \o UnwrapOr(AsStr(AndThenGet(JGet(comment, "user"), "login")), "unknown")
    \o " (" \o UnwrapOr(AsStr(JGet(comment, "created_at")), "") \o "):\n"
    \o UnwrapOr(AsStr(JGet(comment, "body")), "")

RECURSIVE MapFormatComment(_)
MapFormatComment(comments) ==
    IF Len(comments) = 0 THEN <<>>
    ELSE <<format_comment(comments[1])>> \o MapFormatComment(Tail(comments))

format_comment_list(comments) ==
    IF Len(comments) = 0 THEN "No comments found."
    ELSE Join(MapFormatComment(comments), "\n\n---\n\n")

format_commit(commit) ==
    Join(<<"**Commit:** " \o UnwrapOr(AsStr(JGet(commit, "sha")), "unknown")>>
         \o PushSome("**Message:** ", AsStr(AndThenGet(JGet(commit, "commit"), "message")))
         \o (IF IsSome(AsStr(AndThenGet(AndThenGet(JGet(commit, "commit"), "author"), "name")))
             THEN <<"**Author:** "
                      \o Unwrap(AsStr(AndThenGet(AndThenGet(JGet(commit, "commit"), "author"), "name")))
                      \o " ("
                      \o UnwrapOr(AsStr(AndThenGet(AndThenGet(JGet(commit, "commit"), "author"), "date")), "")
                      \o ")">>
             ELSE <<>>),
         "\n")

\* the backquote that frames a sha in the output, written as a quote: a
\* backquote cannot stand in a string of this notation
Backquote == "'"

\* one line of format_commit_list; None when the sha slice panics
CommitListItem(c) ==
    LET Item(sha) ==
            IF sha = None THEN None
            ELSE Some("- " \o Backquote \o Unwrap(sha) \o Backquote \o " "
                      \o FirstLine(UnwrapOr(AsStr(AndThenGet(JGet(c, "commit"), "message")), "")))
    IN  Item(IF IsSome(AsStr(JGet(c, "sha"))) THEN ShaPrefix(Unwrap(AsStr(JGet(c, "sha"))))
             ELSE Some("???????"))

RECURSIVE MapCommitListItem(_)
MapCommitListItem(commits) ==
    IF Len(commits) = 0 THEN <<>>
    ELSE <<CommitListItem(commits[1])>> \o MapCommitListItem(Tail(commits))

\* the lines of the items, the panic of the first item that panics
CollectItems(items) ==
    IF \E i \in 1..Len(items) : items[i] = None
    THEN Panicked("byte index 7 is not a char boundary")
    ELSE Rendered(Join([i \in 1..Len(items) |-> Unwrap(items[i])], "\n"))

format_commit_list(commits) ==
    IF Len(commits) = 0 THEN Rendered("No commits found.")
    ELSE CollectItems(MapCommitListItem(commits))

\* v.get("id").or_else(|| v.get("sha")) of the commit of the branch, as a string
BranchSha(branch) ==
    AsStr(IF IsSome(JGet(branch, "commit"))
          THEN FirstPresent(Unwrap(JGet(branch, "commit")), <<"id", "sha">>)
          ELSE None)

format_branch(branch) ==
    LET Line(sha) ==
            IF sha = None THEN Panicked("byte index 7 is not a char boundary")
            ELSE Rendered("- " \o UnwrapOr(AsStr(JGet(branch, "name")), "unknown")
                          \o " (" \o Backquote \o Unwrap(sha) \o Backquote \o ")"
                          \o (IF UnwrapOr(AsBool(JGet(branch, "protected")), FALSE)
                              THEN " [protected]" ELSE ""))
    IN  Line(IF IsSome(BranchSha(branch)) THEN ShaPrefix(Unwrap(BranchSha(branch)))
             ELSE Some("???????"))

(***************************************************************************)
(* response.rs: file content and directory listings                        *)
(***************************************************************************)
B64Alphabet == "ABCDEFGHIJKLMNOPQRSTUVWXYZabcdefghijklmnopqrstuvwxyz0123456789+/"

\* the value of a base64 symbol, -1 for any other character
B64Val(c) == Find(B64Alphabet, c, 1) - 1

\* Option<Vec<u8>> with one more chunk in front
PrependBytes(chunk, o) == IF IsSome(o) THEN Some(chunk \o Unwrap(o)) ELSE None

\* base64::engine::general_purpose::STANDARD.decode(..).ok(): groups of four
\* symbols, canonical padding required, trailing bits zero
RECURSIVE Base64Decode(_)
Base64Decode(s) ==
    LET Quad(a, b, c, d, c3, c4, rest) ==
            IF a < 0 \/ b < 0 THEN None
            ELSE IF c3 = "="
            THEN (IF c4 = "=" /\ rest = "" /\ b % 16 = 0
                  THEN Some(<<a * 4 + b \div 16>>) ELSE None)
            ELSE IF c < 0 THEN None
            ELSE IF c4 = "="
            THEN (IF rest = "" /\ c % 4 = 0
                  THEN Some(<<a * 4 + b \div 16, (b % 16) * 16 + c \div 4>>) ELSE None)
            ELSE IF d < 0 THEN None
            ELSE PrependBytes(<<a * 4 + b \div 16, (b % 16) * 16 + c \div 4, (c % 4) * 64 + d>>,
                              Base64Decode(rest))
    IN  IF Len(s) = 0 THEN Some(<<>>)
        ELSE IF Len(s) < 4 THEN None
        ELSE Quad(B64Val(CharAt(s, 1)), B64Val(CharAt(s, 2)), B64Val(CharAt(s, 3)),
                  B64Val(CharAt(s, 4)), CharAt(s, 3), CharAt(s, 4), SubSeq(s, 5, Len(s)))

\* the printable ASCII characters from the space (32) to the underscore (95)
\* and from a (97) to the tilde (126)
AsciiLow == " !\"#$%&'()*+,-./0123456789:;<=>?@ABCDEFGHIJKLMNOPQRSTUVWXYZ[\\]^_"
AsciiHigh == "abcdefghijklmnopqrstuvwxyz{|}~"

\* Option<String> with one more character in front
PrependChar(c, o) == IF IsSome(o) THEN Some(c \o Unwrap(o)) ELSE None

\* String::from_utf8(bytes).ok(), on the bytes the contents drawn decode to:
\* ASCII text, the two bytes of e-acute, the three of the euro sign, and
\* bytes that are not UTF-8
RECURSIVE FromUtf8(_)
FromUtf8(bytes) ==
    IF Len(bytes) = 0 THEN Some("")
    ELSE IF bytes[1] = 10 THEN PrependChar("\n", FromUtf8(Tail(bytes)))
    ELSE IF bytes[1] = 9 THEN PrependChar("\t", FromUtf8(Tail(bytes)))
    ELSE IF bytes[1] = 96 THEN PrependChar(Backquote, FromUtf8(Tail(bytes)))
    ELSE IF 32 <= bytes[1] /\ bytes[1] <= 95
    THEN PrependChar(CharAt(AsciiLow, bytes[1] - 31), FromUtf8(Tail(bytes)))
    ELSE IF 97 <= bytes[1] /\ bytes[1] <= 126
    THEN PrependChar(CharAt(AsciiHigh, bytes[1] - 96), FromUtf8(Tail(bytes)))
    ELSE IF bytes[1] = 195 /\ Len(bytes) >= 2 /\ bytes[2] = 169
    THEN PrependChar("é", FromUtf8(Tail(Tail(bytes))))
    ELSE IF bytes[1] = 226 /\ Len(bytes) >= 3 /\ bytes[2] = 130 /\ bytes[3] = 172
    THEN PrependChar("€", FromUtf8(Tail(Tail(Tail(bytes)))))
    ELSE None

\* str::replace(c, "")
RECURSIVE RemoveChar(_, _)
RemoveChar(s, c) ==
    IF Len(s) = 0 THEN ""
    ELSE (IF CharAt(s, 1) = c THEN "" ELSE CharAt(s, 1)) \o RemoveChar(SubSeq(s, 2, Len(s)), c)

\* .decode(&clean).ok().and_then(|bytes| String::from_utf8(bytes).ok())
DecodeContent(content) ==
    LET Text(bytes) == IF IsSome(bytes) THEN FromUtf8(Unwrap(bytes)) ELSE None
    IN  Text(Base64Decode(RemoveChar(content, "\n")))

format_file_content(file) ==
    LET name == UnwrapOr(AsStr(JGet(file, "name")), "unknown")
        Body(p, content) ==
            "**File:** " \o p
            \o " (" \o I64ToString(UnwrapOr(AsI64(JGet(file, "size")), 0)) \o " bytes)"
            \o (IF IsSome(AsStr(JGet(file, "sha")))
                THEN "\n**SHA:** " \o Unwrap(AsStr(JGet(file, "sha"))) ELSE "")
            \o "\n\n" \o Backquote \o Backquote \o Backquote \o "\n"
            \o (IF content # "" THEN UnwrapOr(DecodeContent(content), "(binary content)")
                ELSE "(empty file)")
            \o "\n" \o Backquote \o Backquote \o Backquote
        Entry(p) ==
            IF UnwrapOr(AsStr(JGet(file, "type")), "file") = "dir"
            THEN "**" \o p \o "/** (directory)"
            ELSE Body(p, UnwrapOr(AsStr(JGet(file, "content")), ""))
    IN  Entry(UnwrapOr(AsStr(JGet(file, "path")), name))

\* one line of format_file_list
FileListItem(e) ==
    "- " \o UnwrapOr(AsStr(JGet(e, "name")), "?")
    \o (IF UnwrapOr(AsStr(JGet(e, "type")), "file") = "dir" THEN "/" ELSE "")

RECURSIVE MapFileListItem(_)
MapFileListItem(entries) ==
    IF Len(entries) = 0 THEN <<>>
    ELSE <<FileListItem(entries[1])>> \o MapFileListItem(Tail(entries))

format_file_list(entries) ==
    IF Len(entries) = 0 THEN "No files found."
    ELSE Join(MapFileListItem(entries), "\n")

(***************************************************************************)
(* client.rs (GiteaClient) and client/github.rs (GitHubClient)             *)
(***************************************************************************)
Auth == Err("Auth", "")
NotFound(u) == Err("NotFound", u)
Api(m) == Err("Api", m)
\* GitxError::Http(reqwest::Error), by the reqwest error's kind
Http(k) == Err("Http", k)

\* what the network does with a request: the connection fails, or a final
\* response arrives.  body is None when reading the body fails; via is the
\* URL of the final response when redirects were followed to reach it.
Unreachable == [kind |-> "unreachable"]
Reply(st, b, v) == [kind |-> "reply", status |-> st, body |-> b, via |-> v]

\* StatusCode's Display: the number and its canonical reason
StatusLine(st) ==
    CASE st = 200 -> "200 OK"
      [] st = 201 -> "201 Created"
      [] st = 204 -> "204 No Content"
      [] st = 304 -> "304 Not Modified"
      [] st = 400 -> "400 Bad Request"
      [] st = 401 -> "401 Unauthorized"
      [] st = 403 -> "403 Forbidden"
      [] st = 404 -> "404 Not Found"
      [] st = 409 -> "409 Conflict"
      [] st = 422 -> "422 Unprocessable Entity"
      [] st = 500 -> "500 Internal Server Error"
      [] st = 599 -> "599 <unknown status code>"

\* StatusCode::is_success
IsSuccess(st) == 200 <= st /\ st < 300

\* Response::text().await.unwrap_or_default()
TextOrDefault(b) == IF IsSome(b) THEN Unwrap(b) ELSE ""

\* Response::json::<Value>() on the bodies the replies are drawn from: None
\* is a decode error
JsonParse(text) ==
    CASE text = "[]" -> Some(JArr(<<>>))
      [] text = "{\"message\":\"Bad credentials\"}"
           -> Some(JObj(<<<<"message", JStr("Bad credentials")>>>>))
      [] text = "{\"number\":1,\"state\":\"open\",\"title\":\"Bug\"}"
           -> Some(JObj(<<<<"number", JNum(1)>>, <<"state", JStr("open")>>,
                          <<"title", JStr("Bug")>>>>))
      [] text = "{\"workflow_runs\":[{\"name\":\"ci\",\"status\":\"success\"}]}"
           -> Some(JObj(<<<<"workflow_runs",
                            JArr(<<JObj(<<<<"name", JStr("ci")>>,
                                          <<"status", JStr("success")>>>>)>>)>>>>))
      [] text = "{\"workflows\":[{\"name\":\"ci\",\"path\":\"ci.yml\",\"state\":\"active\"}]}"
           -> Some(JObj(<<<<"workflows",
                            JArr(<<JObj(<<<<"name", JStr("ci")>>, <<"path", JStr("ci.yml")>>,
                                          <<"state", JStr("active")>>>>)>>)>>>>))
      [] text = "[{\"name\":\"ci.yml\"}]"
           -> Some(JArr(<<JObj(<<<<"name", JStr("ci.yml")>>>>)>>))
      [] OTHER -> None

\* serde_urlencoded over the query pairs (keys and values of letters and
\* digits, which are written as they are)
RECURSIVE QueryString(_)
QueryString(q) ==
    IF Len(q) = 0 THEN ""
    ELSE q[1][1] \o "=" \o q[1][2]
         \o (IF Len(q) = 1 THEN "" ELSE "&" \o QueryString(Tail(q)))

\* the query as written: what follows the first '?' of the tail
UrlQuery(tail) ==
    LET qm == Find(tail, "?", 1)
    IN  IF qm = 0 THEN "" ELSE SubSeq(tail, qm + 1, Len(tail))

\* Url::query_pairs_mut().extend_pairs: the pairs go behind the query the URL
\* already has
MergeQuery(own, added) ==
    IF added = "" THEN own ELSE IF own = "" THEN added ELSE own \o "&" \o added

\* the URL a request is sent to, as Url::to_string gives it back:
\* Url::parse(u), the pairs of RequestBuilder::query(q) appended to its
\* query, an empty query removed, for a URL without credentials or fragment.
\* None: u does not parse.
UrlHref(u, q) ==
    LET Href(scheme, hostport, p, all) ==
            IF p = None THEN None
            ELSE Some(scheme \o "://" \o UrlHost(hostport)
                      \o (IF UrlPort(hostport) \in {"", IF scheme = "https" THEN "443" ELSE "80"}
                          THEN "" ELSE ":" \o UrlPort(hostport))
                      \o Unwrap(p)
                      \o (IF all = "" THEN "" ELSE "?" \o all))
    IN  Href(UrlScheme(u), UrlHostPort(UrlAuthority(UrlRest(u))), UrlParsePath(u),
             MergeQuery(UrlQuery(UrlTail(UrlRest(u))), QueryString(q)))

\* RequestBuilder::send().await: Err(Http) when the URL does not parse or the
\* connection fails, else the final response with its own URL
Send(u, q, net) ==
    LET Sent(href) ==
            IF href = None THEN Http("builder")
            ELSE IF net.kind = "unreachable" THEN Http("request")
            ELSE Ok([status |-> net.status, body |-> net.body,
                     url |-> IF IsSome(net.via) THEN Unwrap(net.via) ELSE Unwrap(href)])
    IN  Sent(UrlHref(u, q))

\* GiteaClient::new: base_api
GiteaClient_base_api(base) ==
    base \o "/api/v1"

GiteaClient_url(base, p) == GiteaClient_base_api(base) \o p

GiteaClient_handle_response(resp) ==
    IF resp.status = 401 \/ resp.status = 403 THEN Auth
    ELSE IF resp.status = 404 THEN NotFound(resp.url)
    ELSE IF ~IsSuccess(resp.status)
         THEN Api("HTTP " \o StatusLine(resp.status) \o ": " \o TextOrDefault(resp.body))
    ELSE IF IsSome(resp.body) /\ IsSome(JsonParse(Unwrap(resp.body)))
         THEN Ok(Unwrap(JsonParse(Unwrap(resp.body))))
    ELSE Http("decode")

GiteaClient_get(base, p, net) ==
    LET Handle(sent) == IF ~sent.ok THEN sent ELSE GiteaClient_handle_response(sent.val)
    IN  Handle(Send(GiteaClient_url(base, p), <<>>, net))

GiteaClient_get_with_query(base, p, q, net) ==
    LET Handle(sent) == IF ~sent.ok THEN sent ELSE GiteaClient_handle_response(sent.val)
    IN  Handle(Send(GiteaClient_url(base, p), q, net))

GiteaClient_get_raw(base, p, net) ==
    LET Check(u, resp) ==
            IF resp.status = 401 \/ resp.status = 403 THEN Auth
            ELSE IF resp.status = 404 THEN NotFound(u)
            ELSE IF ~IsSuccess(resp.status)
                 THEN Api("HTTP " \o StatusLine(resp.status) \o ": " \o TextOrDefault(resp.body))
            ELSE IF IsSome(resp.body) THEN Ok(Unwrap(resp.body)) ELSE Http("body")
        Sent(u, sent) == IF ~sent.ok THEN sent ELSE Check(u, sent.val)
    IN  Sent(GiteaClient_url(base, p), Send(GiteaClient_url(base, p), <<>>, net))

GiteaClient_post(base, p, net) ==
    LET Handle(sent) == IF ~sent.ok THEN sent ELSE GiteaClient_handle_response(sent.val)
    IN  Handle(Send(GiteaClient_url(base, p), <<>>, net))

GiteaClient_post_no_content(base, p, net) ==
    LET Check(u, resp) ==
            IF resp.status = 401 \/ resp.status = 403 THEN Auth
            ELSE IF resp.status = 404 THEN NotFound(u)
            ELSE IF ~IsSuccess(resp.status)
                 THEN Api("HTTP " \o StatusLine(resp.status) \o ": " \o TextOrDefault(resp.body))
            ELSE Ok(<<>>)
        Sent(u, sent) == IF ~sent.ok THEN sent ELSE Check(u, sent.val)
    IN  Sent(GiteaClient_url(base, p), Send(GiteaClient_url(base, p), <<>>, net))

GiteaClient_put(base, p, net) ==
    LET Handle(sent) == IF ~sent.ok THEN sent ELSE GiteaClient_handle_response(sent.val)
    IN  Handle(Send(GiteaClient_url(base, p), <<>>, net))

GiteaClient_patch(base, p, net) ==
    LET Handle(sent) == IF ~sent.ok THEN sent ELSE GiteaClient_handle_response(sent.val)
    IN  Handle(Send(GiteaClient_url(base, p), <<>>, net))

GiteaClient_delete(base, p, net) ==
    LET Check(u, resp) ==
            IF resp.status = 401 \/ resp.status = 403 THEN Auth
            ELSE IF resp.status = 404 THEN NotFound(u)
            ELSE IF ~IsSuccess(resp.status)
                 THEN Api("HTTP " \o StatusLine(resp.status) \o ": " \o TextOrDefault(resp.body))
            ELSE Ok(<<>>)
        Sent(u, sent) == IF ~sent.ok THEN sent ELSE Check(u, sent.val)
    IN  Sent(GiteaClient_url(base, p), Send(GiteaClient_url(base, p), <<>>, net))

GiteaClient_delete_with_body(base, p, net) ==
    LET Check(u, resp) ==
            IF resp.status = 401 \/ resp.status = 403 THEN Auth
            ELSE IF resp.status = 404 THEN NotFound(u)
            ELSE IF ~IsSuccess(resp.status)
                 THEN Api("HTTP " \o StatusLine(resp.status) \o ": " \o TextOrDefault(resp.body))
            ELSE Ok(<<>>)
        Sent(u, sent) == IF ~sent.ok THEN sent ELSE Check(u, sent.val)
    IN  Sent(GiteaClient_url(base, p), Send(GiteaClient_url(base, p), <<>>, net))

\* GitHubClient::new: base_api
GitHubClient_base_api(base) ==
    IF base = "https://github.com" THEN "https://api.github.com"
    ELSE base \o "/api/v3"

GitHubClient_url(base, p) == GitHubClient_base_api(base) \o p

\* a 403 is handed on as an API failure
GitHubClient_handle_response_forbidden_as_api(resp) ==
    IF resp.status = 401 THEN Auth
    ELSE IF resp.status = 404 THEN NotFound(resp.url)
    ELSE IF ~IsSuccess(resp.status)
         THEN Api("HTTP " \o StatusLine(resp.status) \o ": " \o TextOrDefault(resp.body))
    ELSE IF IsSome(resp.body) /\ IsSome(JsonParse(Unwrap(resp.body)))
         THEN Ok(Unwrap(JsonParse(Unwrap(resp.body))))
    ELSE Http("decode")

GitHubClient_handle_response(resp) ==
    IF resp.status = 401 \/ resp.status = 403 THEN Auth
    ELSE IF resp.status = 404 THEN NotFound(resp.url)
    ELSE IF ~IsSuccess(resp.status)
         THEN Api("HTTP " \o StatusLine(resp.status) \o ": " \o TextOrDefault(resp.body))
    ELSE IF IsSome(resp.body) /\ IsSome(JsonParse(Unwrap(resp.body)))
         THEN Ok(Unwrap(JsonParse(Unwrap(resp.body))))
    ELSE Http("decode")

GitHubClient_get_json(base, p, net) ==
    LET Handle(sent) == IF ~sent.ok THEN sent ELSE GitHubClient_handle_response(sent.val)
    IN  Handle(Send(GitHubClient_url(base, p), <<>>, net))

GitHubClient_get_json_with_query(base, p, q, net) ==
    LET Handle(sent) == IF ~sent.ok THEN sent ELSE GitHubClient_handle_response(sent.val)
    IN  Handle(Send(GitHubClient_url(base, p), q, net))

GitHubClient_get_raw(base, p, net) ==
    LET Check(u, resp) ==
            IF resp.status = 401 \/ resp.status = 403 THEN Auth
            ELSE IF resp.status = 404 THEN NotFound(u)
            ELSE IF ~IsSuccess(resp.status)
                 THEN Api("HTTP " \o StatusLine(resp.status) \o ": " \o TextOrDefault(resp.body))
            ELSE IF IsSome(resp.body) THEN Ok(Unwrap(resp.body)) ELSE Http("body")
        Sent(u, sent) == IF ~sent.ok THEN sent ELSE Check(u, sent.val)
    IN  Sent(GitHubClient_url(base, p), Send(GitHubClient_url(base, p), <<>>, net))

GitHubClient_post_json(base, p, net) ==
    LET Handle(sent) == IF ~sent.ok THEN sent ELSE GitHubClient_handle_response(sent.val)
    IN  Handle(Send(GitHubClient_url(base, p), <<>>, net))

GitHubClient_post_no_content(base, p, net) ==
    LET Check(u, resp) ==
            IF resp.status = 401 \/ resp.status = 403 THEN Auth
            ELSE IF resp.status = 404 THEN NotFound(u)
            ELSE IF ~IsSuccess(resp.status)
                 THEN Api("HTTP " \o StatusLine(resp.status) \o ": " \o TextOrDefault(resp.body))
            ELSE Ok(<<>>)
        Sent(u, sent) == IF ~sent.ok THEN sent ELSE Check(u, sent.val)
    IN  Sent(GitHubClient_url(base, p), Send(GitHubClient_url(base, p), <<>>, net))

GitHubClient_put_json(base, p, net) ==
    LET Handle(sent) == IF ~sent.ok THEN sent ELSE GitHubClient_handle_response(sent.val)
    IN  Handle(Send(GitHubClient_url(base, p), <<>>, net))

GitHubClient_patch_json(base, p, net) ==
    LET Handle(sent) == IF ~sent.ok THEN sent ELSE GitHubClient_handle_response(sent.val)
    IN  Handle(Send(GitHubClient_url(base, p), <<>>, net))

GitHubClient_delete(base, p, net) ==
    LET Check(u, resp) ==
            IF resp.status = 401 \/ resp.status = 403 THEN Auth
            ELSE IF resp.status = 404 THEN NotFound(u)
            ELSE IF ~IsSuccess(resp.status)
                 THEN Api("HTTP " \o StatusLine(resp.status) \o ": " \o TextOrDefault(resp.body))
            ELSE Ok(<<>>)
        Sent(u, sent) == IF ~sent.ok THEN sent ELSE Check(u, sent.val)
    IN  Sent(GitHubClient_url(base, p), Send(GitHubClient_url(base, p), <<>>, net))

GitHubClient_delete_with_body(base, p, net) ==
    LET Check(u, resp) ==
            IF resp.status = 401 \/ resp.status = 403 THEN Auth
            ELSE IF resp.status = 404 THEN NotFound(u)
            ELSE IF ~IsSuccess(resp.status)
                 THEN Api("HTTP " \o StatusLine(resp.status) \o ": " \o TextOrDefault(resp.body))
            ELSE Ok(<<>>)
        Sent(u, sent) == IF ~sent.ok THEN sent ELSE Check(u, sent.val)
    IN  Sent(GitHubClient_url(base, p), Send(GitHubClient_url(base, p), <<>>, net))

(***************************************************************************)
(* SpecClient: one call of one client method on one backend, for each path *)
(* and query drawn below and each thing the network can do with it.        *)
(***************************************************************************)
Backends == {"Gitea", "GitHub"}
BaseUrls == {"https://h", "https://github.com", "http://h:8080"}
JsonVerbs == {"get", "get_with_query", "post", "put", "patch"}
InlineVerbs == {"get_raw", "post_no_content", "delete", "delete_with_body"}
Verbs == JsonVerbs \cup InlineVerbs
ClientPaths == {"/repos/o/r/issues/1", "/repos/a b/r", "/repos/o/r/contents/d/../f?ref=main"}
Queries == {<<>>, <<<<"page", "1">>, <<"limit", "20">>>>}
Statuses == {200, 201, 204, 304, 400, 401, 403, 404, 409, 422, 500, 599}
Bodies == {"", "[]", "{\"message\":\"Bad credentials\"}", "<html>token</html>"}
NetOutcomes ==
    {Unreachable} \cup
    {Reply(st, b, v) : st \in Statuses,
                       b \in {None} \cup {Some(t) : t \in Bodies},
                       v \in {None, Some("https://h/login")}}

\* the method named v of the client of backend b
CallVerb(b, base, v, p, q, net) ==
    IF b = "Gitea"
    THEN CASE v = "get" -> GiteaClient_get(base, p, net)
           [] v = "get_with_query" -> GiteaClient_get_with_query(base, p, q, net)
           [] v = "get_raw" -> GiteaClient_get_raw(base, p, net)
           [] v = "post" -> GiteaClient_post(base, p, net)
           [] v = "post_no_content" -> GiteaClient_post_no_content(base, p, net)
           [] v = "put" -> GiteaClient_put(base, p, net)
           [] v = "patch" -> GiteaClient_patch(base, p, net)
           [] v = "delete" -> GiteaClient_delete(base, p, net)
           [] v = "delete_with_body" -> GiteaClient_delete_with_body(base, p, net)
    ELSE CASE v = "get" -> GitHubClient_get_json(base, p, net)
           [] v = "get_with_query" -> GitHubClient_get_json_with_query(base, p, q, net)
           [] v = "get_raw" -> GitHubClient_get_raw(base, p, net)
           [] v = "post" -> GitHubClient_post_json(base, p, net)
           [] v = "post_no_content" -> GitHubClient_post_no_content(base, p, net)
           [] v = "put" -> GitHubClient_put_json(base, p, net)
           [] v = "patch" -> GitHubClient_patch_json(base, p, net)
           [] v = "delete" -> GitHubClient_delete(base, p, net)
           [] v = "delete_with_body" -> GitHubClient_delete_with_body(base, p, net)

IdleResolver ==
    /\ fs = [d \in Dirs |-> NoFile]
    /\ detected_repo = None
    /\ IdleCall
    /\ IdleLocator
    /\ IdleUrl

InitClient ==
    /\ backend \in Backends
    /\ base_url \in BaseUrls
    /\ verb \in Verbs
    /\ req_path \in ClientPaths
    /\ query \in (IF verb = "get_with_query" THEN Queries ELSE {<<>>})
    /\ response \in NetOutcomes
    /\ client_result = Pending
    /\ IdleResolver
    /\ IdleTool
    /\ IdleFormat
    /\ IdleConfig
    /\ IdleMore

\* the method is called and returns
ClientCall ==
    /\ client_result = Pending
    /\ client_result' = CallVerb(backend, base_url, verb, req_path, query, response)
    /\ UNCHANGED <<backend, base_url, verb, req_path, query, response, resolverVars,
                   toolVars, fmtVars, cfgVars, moreVars>>

NextClient == ClientCall

SpecClient == InitClient /\ [][NextClient]_vars

(***************************************************************************)
(* tools/issues.rs, tools/wiki.rs, tools/actions.rs: a tool is handed the  *)
(* client, its parameters and the default repository, and awaits its       *)
(* client calls one after the other; nets[i] is what the network does with *)
(* the i-th request.  A tool's outcome is its result and the calls it made.*)
(***************************************************************************)
Client(platform, base) == [platform |-> platform, base_url |-> base]

\* CallToolResult::success(vec![Content::text(text)])
CallToolResult_success(text) == Ok([text |-> text])

ToolOutcome(result, calls) == [result |-> result, calls |-> calls]

\* one awaited client call: the request and the Result it came back with
Called(cl, v, p, q, net) ==
    [verb |-> v, path |-> p,
     result |-> CallVerb(cl.platform, cl.base_url, v, p, q, net)]

\* format!("/repos/{owner}/{repo}{rest}")
RepoPath(pair, rest) == "/repos/" \o pair[1] \o "/" \o pair[2] \o rest

\* resolve_owner_repo(&params.owner, &params.repo, &params.directory, default_repo)
ResolveParams(params, default_repo) ==
    resolve_owner_repo(fs, params.owner, params.repo, params.directory, default_repo).result

issue_get(cl, params, default_repo, nets) ==
    LET Got(c) ==
            IF ~c.result.ok THEN ToolOutcome(c.result, <<c>>)
            ELSE ToolOutcome(CallToolResult_success(format_issue(c.result.val)), <<c>>)
        Resolved(res) ==
            IF ~res.ok THEN ToolOutcome(res, <<>>)
            ELSE Got(Called(cl, "get",
                            RepoPath(res.val, "/issues/" \o I64ToString(params.index)),
                            <<>>, nets[1]))
    IN  Resolved(ResolveParams(params, default_repo))

\* format!("- {title} (slug: {sub_url})") over the pages
RECURSIVE MapWikiPage(_)
MapWikiPage(pages) ==
    IF Len(pages) = 0 THEN <<>>
    ELSE <<"- " \o UnwrapOr(AsStr(JGet(pages[1], "title")), "?")
             \o " (slug: " \o UnwrapOr(AsStr(JGet(pages[1], "sub_url")), "?") \o ")">>
         \o MapWikiPage(Tail(pages))

\* every client error is taken for a missing wiki
wiki_list_any_error_as_empty(cl, params, default_repo, nets) ==
    LET Pages(c, pages) ==
            IF Len(pages) = 0
            THEN ToolOutcome(CallToolResult_success("No wiki pages found."), <<c>>)
            ELSE ToolOutcome(CallToolResult_success(Join(MapWikiPage(pages), "\n")), <<c>>)
        Got(c) ==
            IF c.result.ok THEN Pages(c, UnwrapOr(AsArray(Some(c.result.val)), <<>>))
            ELSE IF TRUE
            THEN ToolOutcome(CallToolResult_success(
                     "No wiki pages found (wiki may be disabled for this repository)."), <<c>>)
            ELSE ToolOutcome(c.result, <<c>>)
        Resolved(res) ==
            IF ~res.ok THEN ToolOutcome(res, <<>>)
            ELSE Got(Called(cl, "get_with_query", RepoPath(res.val, "/wiki/pages"),
                            <<<<"page", I64ToString(UnwrapOr(params.page, 1))>>,
                              <<"limit", I64ToString(MinI64(UnwrapOr(params.limit, 20), 50))>>>>,
                            nets[1]))
    IN  IF cl.platform = "GitHub"
        THEN ToolOutcome(CallToolResult_success(
                 "Wiki CRUD is not available on GitHub. GitHub does not expose a wiki API."),
                 <<>>)
        ELSE Resolved(ResolveParams(params, default_repo))

wiki_list(cl, params, default_repo, nets) ==
    LET Pages(c, pages) ==
            IF Len(pages) = 0
            THEN ToolOutcome(CallToolResult_success("No wiki pages found."), <<c>>)
            ELSE ToolOutcome(CallToolResult_success(Join(MapWikiPage(pages), "\n")), <<c>>)
        Got(c) ==
            IF c.result.ok THEN Pages(c, UnwrapOr(AsArray(Some(c.result.val)), <<>>))
            ELSE IF c.result.kind = "NotFound"
            THEN ToolOutcome(CallToolResult_success(
                     "No wiki pages found (wiki may be disabled for this repository)."), <<c>>)
            ELSE ToolOutcome(c.result, <<c>>)
        Resolved(res) ==
            IF ~res.ok THEN ToolOutcome(res, <<>>)
            ELSE Got(Called(cl, "get_with_query", RepoPath(res.val, "/wiki/pages"),
                            <<<<"page", I64ToString(UnwrapOr(params.page, 1))>>,
                              <<"limit", I64ToString(MinI64(UnwrapOr(params.limit, 20), 50))>>>>,
                            nets[1]))
    IN  IF cl.platform = "GitHub"
        THEN ToolOutcome(CallToolResult_success(
                 "Wiki CRUD is not available on GitHub. GitHub does not expose a wiki API."),
                 <<>>)
        ELSE Resolved(ResolveParams(params, default_repo))

\* format!("- {name} ({state}) [{path}]") over GitHub's workflows
RECURSIVE MapWorkflow(_)
MapWorkflow(ws) ==
    IF Len(ws) = 0 THEN <<>>
    ELSE <<"- " \o UnwrapOr(AsStr(JGet(ws[1], "name")), "?")
             \o " (" \o UnwrapOr(AsStr(JGet(ws[1], "state")), "unknown") \o ")"
             \o " [" \o UnwrapOr(AsStr(JGet(ws[1], "path")), "") \o "]">>
         \o MapWorkflow(Tail(ws))

\* format!("- {name} ({status})") over Gitea's workflow runs
RECURSIVE MapWorkflowRun(_)
MapWorkflowRun(ws) ==
    IF Len(ws) = 0 THEN <<>>
    ELSE <<"- " \o UnwrapOr(AsStr(JGet(ws[1], "name")), "?")
             \o " (" \o UnwrapOr(AsStr(JGet(ws[1], "status")), "unknown") \o ")">>
         \o MapWorkflowRun(Tail(ws))

\* format!("- {name}") over the entries of a workflows directory
RECURSIVE MapWorkflowFile(_)
MapWorkflowFile(entries) ==
    IF Len(entries) = 0 THEN <<>>
    ELSE <<"- " \o UnwrapOr(AsStr(JGet(entries[1], "name")), "?")>>
         \o MapWorkflowFile(Tail(entries))

actions_workflow_list(cl, params, default_repo, nets) ==
    LET NoWorkflows == CallToolResult_success("No workflows found.")
        FileList(entries) ==
            CallToolResult_success("Workflow files:\n" \o Join(MapWorkflowFile(entries), "\n"))
        \* match files_val { Ok(val) => val.as_array()..., Err(_) => {} }
        Entries(c) ==
            IF c.result.ok THEN UnwrapOr(AsArray(Some(c.result.val)), <<>>) ELSE <<>>
        Third(c1, c2, c3) ==
            IF Len(Entries(c3)) > 0
            THEN ToolOutcome(FileList(Entries(c3)), <<c1, c2, c3>>)
            ELSE ToolOutcome(NoWorkflows, <<c1, c2, c3>>)
        Second(pair, c1, c2) ==
            IF Len(Entries(c2)) > 0
            THEN ToolOutcome(FileList(Entries(c2)), <<c1, c2>>)
            ELSE Third(c1, c2, Called(cl, "get", RepoPath(pair, "/contents/.github/workflows"),
                                      <<>>, nets[3]))
        \* .await.unwrap_or(json!({"workflow_runs": []})), then its workflow_runs
        Runs(c1) ==
            UnwrapOr(AsArray(JGet(IF c1.result.ok THEN c1.result.val
                                  ELSE JObj(<<<<"workflow_runs", JArr(<<>>)>>>>),
                                  "workflow_runs")), <<>>)
        First(pair, c1) ==
            IF Len(Runs(c1)) = 0
            THEN Second(pair, c1, Called(cl, "get", RepoPath(pair, "/contents/.gitea/workflows"),
                                         <<>>, nets[2]))
            ELSE ToolOutcome(CallToolResult_success(Join(MapWorkflowRun(Runs(c1)), "\n")), <<c1>>)
        Workflows(c) == UnwrapOr(AsArray(JGet(c.result.val, "workflows")), <<>>)
        GitHub(c) ==
            IF ~c.result.ok THEN ToolOutcome(c.result, <<c>>)
            ELSE IF Len(Workflows(c)) = 0 THEN ToolOutcome(NoWorkflows, <<c>>)
            ELSE ToolOutcome(CallToolResult_success(Join(MapWorkflow(Workflows(c)), "\n")), <<c>>)
        Resolved(res) ==
            IF ~res.ok THEN ToolOutcome(res, <<>>)
            ELSE IF cl.platform = "GitHub"
            THEN GitHub(Called(cl, "get", RepoPath(res.val, "/actions/workflows"), <<>>, nets[1]))
            ELSE First(res.val, Called(cl, "get", RepoPath(res.val, "/actions/tasks"),
                                       <<>>, nets[1]))
    IN  Resolved(ResolveParams(params, default_repo))

\* one awaited client call that carries a query or a body: the request and
\* the Result it came back with
Sent(cl, v, p, q, body, net) ==
    [verb |-> v, path |-> p, query |-> q, body |-> body,
     result |-> CallVerb(cl.platform, cl.base_url, v, p, q, net)]

\* if let Some(x) = opt { query.push((key, x.clone())) }
PushQuery(key, opt) == IF IsSome(opt) THEN <<<<key, Unwrap(opt)>>>> ELSE <<>>

RECURSIVE WithoutPullRequests(_)
\* .filter(|i| i.get("pull_request").is_none())
WithoutPullRequests(items) ==
    IF Len(items) = 0 THEN <<>>
    ELSE (IF IsSome(JGet(items[1], "pull_request")) THEN <<>> ELSE <<items[1]>>)
         \o WithoutPullRequests(Tail(items))

\* the listing request is sent although the repository was not resolved
issue_list_calls_unresolved(cl, params, default_repo, nets) ==
    LET Query ==
            <<<<"state", UnwrapOr(params.state, "open")>>>>
            \o (IF cl.platform = "Gitea" THEN <<<<"type", "issues">>>> ELSE <<>>)
            \o PushQuery("labels", params.labels)
            \o PushQuery("milestones", params.milestone)
            \o <<<<"page", I64ToString(UnwrapOr(params.page, 1))>>,
                 <<"limit", I64ToString(MinI64(UnwrapOr(params.limit, 20), 50))>>>>
        Issues(all_items) ==
            IF cl.platform = "GitHub" THEN WithoutPullRequests(all_items) ELSE all_items
        Got(c) ==
            IF ~c.result.ok THEN ToolOutcome(c.result, <<c>>)
            ELSE ToolOutcome(CallToolResult_success(format_issue_list(
                     Issues(UnwrapOr(AsArray(Some(c.result.val)), <<>>)))), <<c>>)
        Resolved(res) ==
            IF ~res.ok
            THEN ToolOutcome(res, <<Sent(cl, "get_with_query",
                                         RepoPath(<<"", "">>, "/issues"),
                                         Query, None, nets[1])>>)
            ELSE Got(Sent(cl, "get_with_query", RepoPath(res.val, "/issues"),
                          Query, None, nets[1]))
    IN  Resolved(ResolveParams(params, default_repo))

issue_list(cl, params, default_repo, nets) ==
    LET Query ==
            <<<<"state", UnwrapOr(params.state, "open")>>>>
            \o (IF cl.platform = "Gitea" THEN <<<<"type", "issues">>>> ELSE <<>>)
            \o PushQuery("labels", params.labels)
            \o PushQuery("milestones", params.milestone)
            \o <<<<"page", I64ToString(UnwrapOr(params.page, 1))>>,
                 <<"limit", I64ToString(MinI64(UnwrapOr(params.limit, 20), 50))>>>>
        Issues(all_items) ==
            IF cl.platform = "GitHub" THEN WithoutPullRequests(all_items) ELSE all_items
        Got(c) ==
            IF ~c.result.ok THEN ToolOutcome(c.result, <<c>>)
            ELSE ToolOutcome(CallToolResult_success(format_issue_list(
                     Issues(UnwrapOr(AsArray(Some(c.result.val)), <<>>)))), <<c>>)
        Resolved(res) ==
            IF ~res.ok THEN ToolOutcome(res, <<>>)
            ELSE Got(Sent(cl, "get_with_query", RepoPath(res.val, "/issues"),
                          Query, None, nets[1]))
    IN  Resolved(ResolveParams(params, default_repo))

\* if let Some(x) = opt { body[key] = value }
BodyField(key, opt, value) == IF IsSome(opt) THEN <<<<key, value>>>> ELSE <<>>

file_delete(cl, params, default_repo, nets) ==
    LET Path == TrimStartMatches(params.path, "/")
        Body ==
            JObj(<<<<"sha", JStr(params.sha)>>, <<"message", JStr(params.message)>>>>
                 \o BodyField("branch", params.branch, JStr(UnwrapOr(params.branch, ""))))
        Got(c) ==
            IF ~c.result.ok THEN ToolOutcome(c.result, <<c>>)
            ELSE ToolOutcome(CallToolResult_success("File deleted: " \o Path), <<c>>)
        Resolved(res) ==
            IF ~res.ok THEN ToolOutcome(res, <<>>)
            ELSE Got(Sent(cl, "delete_with_body", RepoPath(res.val, "/contents/" \o Path),
                          <<>>, Some(Body), nets[1]))
    IN  Resolved(ResolveParams(params, default_repo))

pr_merge(cl, params, default_repo, nets) ==
    LET Style == UnwrapOr(params.merge_style, "merge")
        Body ==
            JObj((IF cl.platform = "Gitea"
                  THEN <<<<"Do", JStr(Style)>>>>
                       \o BodyField("merge_message_field", params.merge_message,
                                    JStr(UnwrapOr(params.merge_message, "")))
                  ELSE <<<<"merge_method", JStr(Style)>>>>
                       \o BodyField("commit_message", params.merge_message,
                                    JStr(UnwrapOr(params.merge_message, ""))))
                 \o BodyField("delete_branch_after_merge", params.delete_branch_after_merge,
                              JBool(UnwrapOr(params.delete_branch_after_merge, FALSE))))
        Got(c) ==
            IF ~c.result.ok THEN ToolOutcome(c.result, <<c>>)
            ELSE ToolOutcome(CallToolResult_success(
                     "Pull request #" \o I64ToString(params.index)
                     \o " merged successfully."), <<c>>)
        Resolved(res) ==
            IF ~res.ok THEN ToolOutcome(res, <<>>)
            ELSE Got(Sent(cl, "post_no_content",
                          RepoPath(res.val, "/pulls/" \o I64ToString(params.index) \o "/merge"),
                          <<>>, Some(Body), nets[1]))
    IN  Resolved(ResolveParams(params, default_repo))

(***************************************************************************)
(* SpecTool: the server runs one tool invocation at a time, on either      *)
(* client, with the repository named or left out, against every course the *)
(* network can take over the requests of the invocation.                   *)
(***************************************************************************)
ToolNames ==
    {"issue_get", "wiki_list", "actions_workflow_list", "issue_list", "file_delete", "pr_merge"}
Clients == {Client("Gitea", "https://h"), Client("GitHub", "https://github.com")}

\* the fields of IssueGetParams, WikiListParams, ActionsWorkflowListParams,
\* IssueListParams, FileDeleteParams and PrMergeParams
ToolParams ==
    {[owner |-> o, repo |-> r, directory |-> None, index |-> 1,
      page |-> None, limit |-> Some(100),
      state |-> None, labels |-> Some("bug"), milestone |-> None,
      path |-> "/a.txt", sha |-> "abc", message |-> "remove", branch |-> Some("dev"),
      merge_style |-> None, merge_message |-> Some("done"),
      delete_branch_after_merge |-> Some(TRUE)] :
        o \in {None, Some("o")}, r \in {None, Some("r")}}

IssueBody == "{\"number\":1,\"state\":\"open\",\"title\":\"Bug\"}"
RunsBody == "{\"workflow_runs\":[{\"name\":\"ci\",\"status\":\"success\"}]}"
WorkflowsBody == "{\"workflows\":[{\"name\":\"ci\",\"path\":\"ci.yml\",\"state\":\"active\"}]}"
ListingBody == "[{\"name\":\"ci.yml\"}]"
IssuesBody ==
    "[{\"number\":1,\"state\":\"open\",\"title\":\"Bug\"},"
    \o "{\"number\":2,\"pull_request\":{},\"state\":\"open\",\"title\":\"Fix\"}]"

ToolNet ==
    {Unreachable} \cup
    {Reply(st, Some("{\"message\":\"Bad credentials\"}"), None) : st \in {401, 404, 500}} \cup
    {Reply(200, Some(b), None) : b \in {"[]", IssueBody, RunsBody, WorkflowsBody, ListingBody, IssuesBody}}

\* the most requests one invocation makes (actions_workflow_list on Gitea)
MaxRequests == 3

\* the most requests an invocation of t on cl makes: the network acts on these
Requests(t, cl) ==
    IF t = "actions_workflow_list" /\ cl.platform = "Gitea" THEN MaxRequests ELSE 1

RunTool(t, cl, params, default_repo, nets) ==
    CASE t = "issue_get" -> issue_get(cl, params, default_repo, nets)
      [] t = "wiki_list" -> wiki_list(cl, params, default_repo, nets)
      [] t = "actions_workflow_list" -> actions_workflow_list(cl, params, default_repo, nets)
      [] t = "issue_list" -> issue_list(cl, params, default_repo, nets)
      [] t = "file_delete" -> file_delete(cl, params, default_repo, nets)
      [] t = "pr_merge" -> pr_merge(cl, params, default_repo, nets)

InitTool ==
    /\ IdleTool
    /\ IdleClient
    /\ IdleResolver
    /\ IdleFormat
    /\ IdleConfig
    /\ IdleMore

\* a tool is invoked and runs to its result
InvokeTool(t, cl, params, nets) ==
    LET Ran(out) ==
            /\ tool_result' = out.result
            /\ tool_calls' = out.calls
    IN  /\ tool_result = Pending
        /\ tool' = t
        /\ client' = cl
        /\ tool_params' = params
        /\ network' = nets
        /\ Ran(RunTool(t, cl, params, detected_repo, nets))
        /\ UNCHANGED <<resolverVars, cliVars, fmtVars, cfgVars, moreVars>>

\* the result is handed to the caller
ToolFinished ==
    /\ tool_result # Pending
    /\ tool' = "" /\ client' = <<>> /\ tool_params' = <<>> /\ network' = <<>>
    /\ tool_result' = Pending /\ tool_calls' = <<>>
    /\ UNCHANGED <<resolverVars, cliVars, fmtVars, cfgVars, moreVars>>

NextTool ==
    \/ \E t \in ToolNames, cl \in Clients, params \in ToolParams :
          \E nets \in [1..Requests(t, cl) -> ToolNet] : InvokeTool(t, cl, params, nets)
    \/ ToolFinished

SpecTool == InitTool /\ [][NextTool]_vars

(***************************************************************************)
(* SpecFormat: one renderer applied to one JSON value, drawn from scalars, *)
(* objects with each field absent or present in each type, and arrays of   *)
(* at most MaxItems such values.                                           *)
(***************************************************************************)
MaxItems == 2
MaxShaChars == 3

\* an entry of an object under construction: nothing when the field is absent
Field(k, o) == IF IsSome(o) THEN <<<<k, Unwrap(o)>>>> ELSE <<>>

ShaChars == {"a", "é", "€"}
ShaTexts == Words(ShaChars, MaxShaChars) \cup {"0123456789abcdef"}

Titles == {None, Some(JNull), Some(JStr("")), Some(JStr("Bug")), Some(JNum(5))}
Numbers == {None, Some(JNum(7)), Some(JStr("7"))}

IssueObjects ==
    {JObj(Field("labels", l) \o Field("number", n) \o Field("state", st) \o Field("title", t)) :
        l \in {None, Some(JArr(<<JObj(<<<<"name", JStr("bug")>>>>)>>))},
        n \in Numbers, st \in {None, Some(JStr("open"))}, t \in Titles}

CommitObjects ==
    {JObj(Field("commit", c) \o Field("sha", s)) :
        c \in {None, Some(JObj(<<<<"message", JStr("fix\nmore")>>>>))},
        s \in {None, Some(JNum(1))} \cup {Some(JStr(x)) : x \in ShaTexts}}

BranchObjects ==
    {JObj(Field("commit", c) \o <<<<"name", JStr("main")>>>> \o Field("protected", p)) :
        c \in {None} \cup {Some(JObj(<<<<k, JStr(x)>>>>)) : k \in {"id", "sha"}, x \in ShaTexts},
        p \in {None, Some(JBool(TRUE))}}

FileObjects ==
    {JObj(Field("content", c) \o <<<<"name", JStr("f.txt")>>>> \o Field("sha", s)
          \o Field("type", ty)) :
        c \in {None} \cup {Some(JStr(x)) : x \in {"", "aGk=", "aG\nk=", "aGk", "/w==", "w6k=", "!!!!"}},
        s \in {None, Some(JStr("abc"))},
        ty \in {None, Some(JStr("dir"))}}

GenericValues ==
    {JNull, JBool(TRUE), JNum(0), JNum(0 - 12), JStr(""), JStr("say \"hi\""),
     JObj(<<>>), JArr(<<>>),
     JObj(<<<<"a", JObj(<<<<"zz", JNum(1)>>>>)>>>>),
     JObj(<<<<"a", JNull>>, <<"b", JStr("")>>>>),
     JObj(<<<<"id", JNum(3)>>, <<"owner", JObj(<<<<"login", JStr("alice")>>>>)>>>>),
     JObj(<<<<"tags", JArr(<<JStr("x"), JNum(1), JObj(<<<<"name", JStr("n")>>>>),
                            JObj(<<<<"zz", JNum(1)>>>>)>>)>>>>),
     JObj(<<<<"tags", JArr(<<JObj(<<<<"zz", JNum(1)>>>>)>>)>>>>),
     JObj(<<<<"user", JObj(<<<<"login", JNull>>, <<"name", JStr("x")>>>>)>>>>),
     JObj(<<<<"user", JObj(<<<<"login", JNum(5)>>, <<"name", JStr("x")>>>>)>>>>),
     JObj(<<<<"user", JObj(<<<<"name", JStr("Alice")>>, <<"login", JStr("alice")>>>>)>>>>),
     JObj(<<<<"repo", JObj(<<<<"full_name", JStr("o/n")>>, <<"title", JStr("t")>>>>)>>>>),
     JObj(<<<<"repo", JObj(<<<<"full_name", JStr("o/n")>>>>)>>>>)}

\* the values arrays are made of
ItemPool ==
    {JNull, JStr("x"), JObj(<<>>), JObj(<<<<"a", JNull>>, <<"b", JStr("")>>>>),
     JObj(<<<<"number", JNum(7)>>, <<"title", JStr("Bug")>>>>),
     JObj(<<<<"number", JNum(8)>>>>),
     JObj(<<<<"sha", JStr("0123456789abcdef")>>>>),
     JObj(<<<<"sha", JStr("€€€")>>>>)}

Arrays == {JArr(a) : a \in SeqsUpTo(ItemPool, MaxItems)}

JsonInputs ==
    GenericValues \cup IssueObjects \cup CommitObjects \cup BranchObjects \cup FileObjects
    \cup Arrays

ValueRenderers ==
    {"format_value", "format_issue", "format_pull_request", "format_comment",
     "format_commit", "format_branch", "format_file_content"}
ListRenderers ==
    {"format_issue_list", "format_pr_list", "format_comment_list", "format_commit_list",
     "format_file_list"}

\* the renderer named f applied to v (a list renderer to the items of v)
RenderWith(f, v) ==
    CASE f = "format_value" -> Rendered(format_value(v))
      [] f = "format_issue" -> Rendered(format_issue(v))
      [] f = "format_pull_request" -> Rendered(format_pull_request(v))
      [] f = "format_comment" -> Rendered(format_comment(v))
      [] f = "format_commit" -> Rendered(format_commit(v))
      [] f = "format_branch" -> format_branch(v)
      [] f = "format_file_content" -> Rendered(format_file_content(v))
      [] f = "format_issue_list" -> Rendered(format_issue_list(v.a))
      [] f = "format_pr_list" -> Rendered(format_pr_list(v.a))
      [] f = "format_comment_list" -> Rendered(format_comment_list(v.a))
      [] f = "format_commit_list" -> format_commit_list(v.a)
      [] f = "format_file_list" -> Rendered(format_file_list(v.a))

InitFormat ==
    /\ \/ renderer \in ValueRenderers /\ json_input \in JsonInputs
       \/ renderer \in ListRenderers /\ json_input \in Arrays
    /\ rendered = Pending
    /\ IdleResolver
    /\ IdleClient
    /\ IdleTool
    /\ IdleConfig
    /\ IdleMore

\* the renderer is called and returns, or panics
Render ==
    /\ rendered = Pending
    /\ rendered' = RenderWith(renderer, json_input)
    /\ UNCHANGED <<renderer, json_input, resolverVars, cliVars, toolVars, cfgVars,
                   moreVars>>

NextFormat == Render

SpecFormat == InitFormat /\ [][NextFormat]_vars

(***************************************************************************)
(* config.rs: Config::from_env.  The environment is read once, after       *)
(* dotenvy::dotenv() has added the variables of a .env file to it; env is  *)
(* the environment from_env then sees, variable name -> Option<String>.    *)
(***************************************************************************)
\* Config { base_url, token, platform }
Config(baseUrl, token, platform) ==
    [base_url |-> baseUrl, token |-> token, platform |-> platform]

\* GitxError::MissingParam
MissingParam(m) == Err("MissingParam", m)

\* Result::or_else(..).ok() over two env::var reads: the first variable
\* when it is set, else the second
OrElse(first, second) == IF IsSome(first) THEN first ELSE second

UpperCase == "ABCDEFGHIJKLMNOPQRSTUVWXYZ"
LowerCase == "abcdefghijklmnopqrstuvwxyz"

RECURSIVE ToLowercase(_)
\* str::to_lowercase, on the characters the inputs are written in (ASCII)
ToLowercase(s) ==
    IF Len(s) = 0 THEN ""
    ELSE LET LowerChar(i) == IF i = 0 THEN CharAt(s, 1) ELSE CharAt(LowerCase, i)
         IN  LowerChar(Find(UpperCase, CharAt(s, 1), 1))
             \o ToLowercase(SubSeq(s, 2, Len(s)))

\* str::contains(&str)
StrContains(s, pat) ==
    \E i \in 1..(Len(s) - Len(pat) + 1) : SubSeq(s, i, i + Len(pat) - 1) = pat

\* url::Url::parse(gitea_url).ok().and_then(|u| u.host_str().map(|h|
\* h.to_lowercase())): an input that does not start with an http(s) scheme
\* has no host (of the inputs, those are the ones without any scheme, a
\* relative URL without a base)
GiteaHost(gitea_url) ==
    LET Host(hostport) ==
            IF HostOk(UrlHost(hostport)) /\ PortOk(UrlPort(hostport))
            THEN Some(ToLowercase(UrlHost(hostport)))
            ELSE None
    IN  IF StartsWith(gitea_url, "https://") \/ StartsWith(gitea_url, "http://")
        THEN Host(UrlHostPort(UrlAuthority(UrlRest(gitea_url))))
        ELSE None

\* detect_platform_from_remote; git_stdout is what git config --get
\* remote.origin.url printed, None when git could not be run or failed
detect_platform_from_remote(gitea_url, git_stdout) ==
    LET Match(remote, gitea_host) ==
            IF remote = "" THEN None
            ELSE IF StrContains(remote, "github.com") THEN Some("GitHub")
            ELSE IF IsSome(gitea_host) /\ StrContains(remote, Unwrap(gitea_host))
            THEN Some("Gitea")
            ELSE None
    IN  IF ~IsSome(git_stdout) THEN None
        ELSE Match(Trim(Unwrap(git_stdout)), GiteaHost(gitea_url))

\* base_url.trim_end_matches('/').to_string() with the fault of removing one
\* slash only (strip_suffix)
NormalizeBaseUrl_one_slash(u) ==
    IF EndsWith(u, "/") THEN SubSeq(u, 1, Len(u) - 1) ELSE u

\* base_url.trim_end_matches('/').to_string()
NormalizeBaseUrl(u) == TrimEndMatches(u, "/")

\* github_url.unwrap_or_else(|| "https://github.com".to_string()), trimmed
GitHubBaseUrl(github_url) ==
    NormalizeBaseUrl(IF IsSome(github_url) THEN Unwrap(github_url)
                     ELSE "https://github.com")

\* p.to_lowercase() with the fault of matching the value as it is written
OverrideName_as_written(p) == p

\* match p.to_lowercase().as_str(): the name the override is matched by
OverrideName(p) == ToLowercase(p)

\* 1. explicit platform override
OverrideConfig(name, gitea_url, gitea_token, github_token, github_url) ==
    IF name \in {"gitea", "forgejo"}
    THEN IF ~IsSome(gitea_url)
         THEN MissingParam("GIT_PLATFORM=gitea but GITEA_URL (or FORGEJO_REMOTE_URL) is not set")
         ELSE IF ~IsSome(gitea_token)
         THEN MissingParam("GIT_PLATFORM=gitea but GITEA_TOKEN (or FORGEJO_AUTH_TOKEN) is not set")
         ELSE Ok(Config(NormalizeBaseUrl(Unwrap(gitea_url)), Unwrap(gitea_token), "Gitea"))
    ELSE IF name = "github"
    THEN IF ~IsSome(OrElse(github_token, gitea_token))
         THEN MissingParam("GIT_PLATFORM=github but GITHUB_TOKEN is not set")
         ELSE Ok(Config(GitHubBaseUrl(github_url),
                        Unwrap(OrElse(github_token, gitea_token)), "GitHub"))
    ELSE MissingParam("GIT_PLATFORM=" \o name
                      \o " is not recognized. Use 'gitea', 'forgejo', or 'github'.")

\* 3. both tokens set: the platform detected from the git remote
DetectedConfig(detected, gitea_url, gitea_token, github_token, github_url) ==
    IF detected = Some("GitHub")
    THEN Ok(Config(GitHubBaseUrl(github_url), github_token, "GitHub"))
    ELSE IF detected = Some("Gitea")
    THEN Ok(Config(NormalizeBaseUrl(gitea_url), gitea_token, "Gitea"))
    ELSE MissingParam("Both GITHUB_TOKEN and GITEA_URL/GITEA_TOKEN are set. "
                      \o "Set GIT_PLATFORM=github or GIT_PLATFORM=gitea to disambiguate.")

\* what a call of from_env did: the Result it returned and how many times it
\* ran git
Loaded(result, git_runs) == [result |-> result, git_calls |-> git_runs]

\* Config::from_env, on the environment e and the output git would give
LoadFromEnv(e, git_stdout) ==
    LET Load(explicit_platform, gitea_url, gitea_token, github_token, github_url) ==
            IF IsSome(explicit_platform)
            THEN Loaded(OverrideConfig(OverrideName(Unwrap(explicit_platform)),
                                       gitea_url, gitea_token, github_token,
                                       github_url), 0)
            ELSE IF IsSome(github_token) /\ ~IsSome(gitea_url) /\ ~IsSome(gitea_token)
            THEN Loaded(Ok(Config(GitHubBaseUrl(github_url), Unwrap(github_token),
                                  "GitHub")), 0)
            ELSE IF IsSome(github_token) /\ IsSome(gitea_url) /\ IsSome(gitea_token)
            THEN Loaded(DetectedConfig(
                            detect_platform_from_remote(Unwrap(gitea_url), git_stdout),
                            Unwrap(gitea_url), Unwrap(gitea_token),
                            Unwrap(github_token), github_url), 1)
            ELSE IF IsSome(gitea_url) /\ IsSome(gitea_token)
            THEN Loaded(Ok(Config(NormalizeBaseUrl(Unwrap(gitea_url)),
                                  Unwrap(gitea_token), "Gitea")), 0)
            ELSE Loaded(MissingParam(
                            "No git platform credentials found. Set GITEA_URL + GITEA_TOKEN "
                            \o "for Gitea/Forgejo, or GITHUB_TOKEN for GitHub."), 0)
    IN  Load(e.GIT_PLATFORM,
             OrElse(e.GITEA_URL, e.FORGEJO_REMOTE_URL),
             OrElse(e.GITEA_TOKEN, e.FORGEJO_AUTH_TOKEN),
             e.GITHUB_TOKEN, e.GITHUB_URL)

from_env(e, git_stdout) == LoadFromEnv(e, git_stdout).result

(***************************************************************************)
(* SpecConfig: from_env called once, at start-up, in an environment and a  *)
(* working directory drawn from the cases below                            *)
(***************************************************************************)
Optional(S) == {None} \cup {Some(x) : x \in S}

Envs ==
    [GIT_PLATFORM       : Optional({"gitea", "Forgejo", "GITHUB", "GitLab", ""}),
     GITEA_URL          : Optional({"https://git.example.com",
                                    "https://Git.Example.com:3000//",
                                    "git.example.com"}),
     FORGEJO_REMOTE_URL : Optional({"https://forge.example.com/"}),
     GITEA_TOKEN        : Optional({"gt"}),
     FORGEJO_AUTH_TOKEN : Optional({"ft"}),
     GITHUB_TOKEN       : Optional({"gh"}),
     GITHUB_URL         : Optional({"https://ghe.example.com/", "///"})]

\* what git config --get remote.origin.url gives in the working directory
GitOutputs ==
    Optional({"", "\n",
              "https://github.com/o/r.git\n",
              "git@git.example.com:o/r.git\n",
              "https://git.example.com/mirrors/github.com.git\n",
              "https://Git.Example.com/o/r.git\n",
              "https://forge.example.com/o/r\n",
              "https://gitlab.com/o/r.git\n"})

InitConfig ==
    /\ env \in Envs
    /\ git_output \in GitOutputs
    /\ config = Pending
    /\ git_calls = 0
    /\ IdleResolver
    /\ IdleClient
    /\ IdleTool
    /\ IdleFormat
    /\ IdleMore

\* main: Config::from_env()
LoadConfig ==
    /\ config = Pending
    /\ config' = from_env(env, git_output)
    /\ git_calls' = LoadFromEnv(env, git_output).git_calls
    /\ UNCHANGED <<env, git_output, resolverVars, cliVars, toolVars, fmtVars,
                   moreVars>>

NextConfig == LoadConfig

SpecConfig == InitConfig /\ [][NextConfig]_vars

(***************************************************************************)
(* error.rs: GitxError, its Display and its conversion to the ErrorData a  *)
(* tool call is answered with                                              *)
(***************************************************************************)
\* GitxError::Json(serde_json::Error) and GitxError::Other(anyhow::Error), by
\* the Display text of the error they wrap
Json(m) == Err("Json", m)
Other(m) == Err("Other", m)

\* the dash of the Auth text, written as a hyphen: the long dash cannot
\* stand in a string of this notation
EmDash == "-"

\* #[error("...")]: the Display of GitxError
Display(e) ==
    CASE e.kind = "Api" -> "API request failed: " \o e.msg
      [] e.kind = "Auth" -> "Authentication failed " \o EmDash \o " check your API token"
      [] e.kind = "NotFound" -> "Resource not found: " \o e.msg
      [] e.kind = "MissingParam" -> "Missing required parameter: " \o e.msg
      [] e.kind = "RepoResolution" ->
             "Could not resolve repository from directory: " \o e.msg
      [] e.kind = "Http" -> "HTTP error: " \o e.msg
      [] e.kind = "Json" -> "JSON error: " \o e.msg
      [] OTHER -> e.msg

\* ErrorData::new(code, message, None)
ErrorData(code, message) == [code |-> code, message |-> message]

\* impl From<GitxError> for ErrorData with the fault of NotFound left to the
\* catch-all arm
ErrorData_from_not_found_internal(e) ==
    ErrorData(IF e.kind \in {"MissingParam", "Auth"}
              THEN "INVALID_PARAMS" ELSE "INTERNAL_ERROR",
              Display(e))

\* impl From<GitxError> for ErrorData
ErrorData_from(e) ==
    ErrorData(IF e.kind \in {"MissingParam", "NotFound", "Auth"}
              THEN "INVALID_PARAMS" ELSE "INTERNAL_ERROR",
              Display(e))

\* fn map_err(r: Result<CallToolResult>) -> Result<CallToolResult, ErrorData>
map_err(r) == IF r.ok THEN r ELSE [ok |-> FALSE, val |-> ErrorData_from(r)]

(***************************************************************************)
(* SpecError: a tool fails with any GitxError and the server answers       *)
(***************************************************************************)
ErrorDetails ==
    {"", "owner", "https://h/api/v1/repos/o/r/issues/7", "404 Not Found: gone",
     "No .git/config found in /repo", "error sending request",
     "expected value at line 1 column 1", "GIT_PLATFORM=gitlab is not recognized.",
     "Resource not found: x", "Invalid token header: bad"}

GitxErrors ==
    {Auth} \cup {Err(k, m) : k \in {"Api", "NotFound", "MissingParam",
                                    "RepoResolution", "Http", "Json", "Other"},
                             m \in ErrorDetails}

InitError ==
    /\ error \in GitxErrors
    /\ error_data = None
    /\ IdleResolver
    /\ IdleClient
    /\ IdleTool
    /\ IdleFormat
    /\ IdleConfig
    /\ IdleServer
    /\ IdleFile

\* map_err(tools::...(...).await) on a tool that failed
ReportError ==
    /\ error_data = None
    /\ error_data' = Some(map_err(error).val)
    /\ UNCHANGED <<error, resolverVars, cliVars, toolVars, fmtVars, cfgVars,
                   conVars, fileVars>>

NextError == ReportError

SpecError == InitError /\ [][NextError]_vars

(***************************************************************************)
(* server.rs: the detected-repository resource                             *)
(***************************************************************************)
RESOURCE_URI == "repo://detected"

\* ErrorData::resource_not_found(message, None)
ErrorData_resource_not_found(message) ==
    [ok |-> FALSE, val |-> ErrorData("RESOURCE_NOT_FOUND", message)]

\* GitxMcp::build_resource_list with the fault of listing the resource
\* whether or not a repository was detected
build_resource_list_always(detected) ==
    Ok(<<[uri |-> RESOURCE_URI, name |-> "detected-repo",
          title |-> IF IsSome(detected)
                    THEN Some(Unwrap(detected).owner \o "/" \o Unwrap(detected).repo)
                    ELSE None]>>)

\* GitxMcp::build_resource_list: ListResourcesResult.resources
build_resource_list(detected) ==
    Ok(IF IsSome(detected)
       THEN <<[uri |-> RESOURCE_URI, name |-> "detected-repo",
               title |-> Some(Unwrap(detected).owner \o "/" \o Unwrap(detected).repo)]>>
       ELSE <<>>)

\* serde_json::json!({"owner": info.owner, "repo": info.repo}).to_string()
RepoJson(repoInfo) ==
    JsonToString(JObj(<<<<"owner", JStr(repoInfo.owner)>>, <<"repo", JStr(repoInfo.repo)>>>>))

\* GitxMcp::build_resource_read: ReadResourceResult.contents
build_resource_read(detected, uri) ==
    IF uri # RESOURCE_URI
    THEN ErrorData_resource_not_found("Unknown resource URI: " \o uri)
    ELSE IF ~IsSome(detected)
    THEN ErrorData_resource_not_found(
             "No repository detected in the server's working directory")
    ELSE Ok(<<[uri |-> RESOURCE_URI, text |-> RepoJson(Unwrap(detected))]>>)

(***************************************************************************)
(* SpecServer: the server after GitxMcp::new, serving up to MaxInvocations *)
(* tool invocations at once, each a task of the runtime, together with     *)
(* resource requests, while the .git/config files are rewritten.  A task   *)
(* is invoked with its parameters, runs the resolution step, and returns.  *)
(***************************************************************************)
MaxInvocations == 2

Tasks == 1..MaxInvocations

NoParams == [owner |-> None, repo |-> None, directory |-> None]

Waiting == [stage |-> "waiting", params |-> NoParams, resolved |-> Pending]

InvocationParams ==
    { NoParams,
      [owner |-> Some("alice"), repo |-> Some("my-repo"), directory |-> None],
      [owner |-> Some("alice"), repo |-> None, directory |-> Some("")],
      [owner |-> None, repo |-> None, directory |-> Some("/repo")] }

WorkingFiles ==
    { NoFile, File(<<OriginHeader, "\turl = git@h:myorg/myproject.git">>) }

RepoFiles ==
    { NoFile,
      File(<<"[core]", "\tbare = false", OriginHeader,
             "\turl = https://h/dir-owner/dir-repo.git">>) }

ResourceUris == {RESOURCE_URI, "repo://unknown"}

InitServer ==
    /\ fs \in [Dirs -> WorkingFiles \cup RepoFiles]
    /\ fs["."] \in WorkingFiles
    /\ fs["/repo"] \in RepoFiles
    /\ fs["/nonexistent"] = NoFile
    /\ detected_repo = DetectRepo(fs)
    /\ srv_client \in Clients
    /\ invocations = [t \in Tasks |-> Waiting]
    /\ resource_reply = None
    /\ IdleCall
    /\ IdleLocator
    /\ IdleUrl
    /\ IdleClient
    /\ IdleTool
    /\ IdleFormat
    /\ IdleConfig
    /\ IdleError
    /\ IdleFile

\* a tool call arrives and is given a task
Invoke(t, params) ==
    /\ invocations[t].stage = "waiting"
    /\ invocations' = [invocations EXCEPT ![t] =
                          [stage |-> "invoked", params |-> params, resolved |-> Pending]]
    /\ UNCHANGED <<resolverVars, cliVars, toolVars, fmtVars, cfgVars, errVars,
                   srv_client, resource_reply, fileVars>>

\* the task's resolution step with the fault of the tool not being handed
\* the detected repository
Resolve_without_default(t) ==
    /\ invocations[t].stage = "invoked"
    /\ invocations' = [invocations EXCEPT ![t] =
          [stage |-> "resolved", params |-> invocations[t].params,
           resolved |-> resolve_owner_repo(fs, invocations[t].params.owner,
                                           invocations[t].params.repo,
                                           invocations[t].params.directory,
                                           None).result]]
    /\ UNCHANGED <<resolverVars, cliVars, toolVars, fmtVars, cfgVars, errVars,
                   srv_client, resource_reply, fileVars>>

\* the task's resolution step with the fault of keeping what it resolved as
\* the server's detected repository
Resolve_caches_result(t) ==
    LET Kept(res) ==
            /\ invocations' = [invocations EXCEPT ![t] =
                                  [stage |-> "resolved",
                                   params |-> invocations[t].params,
                                   resolved |-> res]]
            /\ detected_repo' = IF res.ok THEN Some(RepoInfo(res.val[1], res.val[2]))
                                ELSE detected_repo
    IN  /\ invocations[t].stage = "invoked"
        /\ Kept(resolve_owner_repo(fs, invocations[t].params.owner,
                                   invocations[t].params.repo,
                                   invocations[t].params.directory,
                                   detected_repo).result)
        /\ UNCHANGED <<fs, owner, repo, directory, resolved, located, locVars, urlVars,
                       cliVars, toolVars, fmtVars, cfgVars, errVars,
                       srv_client, resource_reply, fileVars>>

\* the task's resolution step:
\* tools::...(self.client.as_ref(), p, self.detected_repo.as_ref())
Resolve(t) ==
    /\ invocations[t].stage = "invoked"
    /\ invocations' = [invocations EXCEPT ![t] =
          [stage |-> "resolved", params |-> invocations[t].params,
           resolved |-> resolve_owner_repo(fs, invocations[t].params.owner,
                                           invocations[t].params.repo,
                                           invocations[t].params.directory,
                                           detected_repo).result]]
    /\ UNCHANGED <<resolverVars, cliVars, toolVars, fmtVars, cfgVars, errVars,
                   srv_client, resource_reply, fileVars>>

\* the tool returns and its task ends
Return(t) ==
    /\ invocations[t].stage = "resolved"
    /\ invocations' = [invocations EXCEPT ![t] = Waiting]
    /\ UNCHANGED <<resolverVars, cliVars, toolVars, fmtVars, cfgVars, errVars,
                   srv_client, resource_reply, fileVars>>

\* ServerHandler::list_resources
ListResources ==
    /\ resource_reply' = Some([request |-> "list", uri |-> "",
                               reply |-> build_resource_list(detected_repo)])
    /\ UNCHANGED <<resolverVars, cliVars, toolVars, fmtVars, cfgVars, errVars,
                   srv_client, invocations, fileVars>>

\* ServerHandler::read_resource
ReadResource(uri) ==
    /\ resource_reply' = Some([request |-> "read", uri |-> uri,
                               reply |-> build_resource_read(detected_repo, uri)])
    /\ UNCHANGED <<resolverVars, cliVars, toolVars, fmtVars, cfgVars, errVars,
                   srv_client, invocations, fileVars>>

NextServer ==
    \/ \E t \in Tasks, params \in InvocationParams : Invoke(t, params)
    \/ \E t \in Tasks : Resolve(t)
    \/ \E t \in Tasks : Return(t)
    \/ ListResources
    \/ \E uri \in ResourceUris : ReadResource(uri)
    \/ \E d \in RepoDirs, file \in WorkingFiles \cup RepoFiles : WriteGitConfig(d, file)

SpecServer == InitServer /\ [][NextServer]_vars

(***************************************************************************)
(* tools/files.rs: the content file_create and file_update send            *)
(***************************************************************************)
\* str::as_bytes, on the characters the texts are written in
RECURSIVE AsBytes(_)
AsBytes(text) ==
    LET Bytes(c) ==
            IF c = "\n" THEN <<10>>
            ELSE IF c = "\t" THEN <<9>>
            ELSE IF c = "é" THEN <<195, 169>>
            ELSE IF c = "€" THEN <<226, 130, 172>>
            ELSE IF Find(AsciiLow, c, 1) > 0 THEN <<31 + Find(AsciiLow, c, 1)>>
            ELSE <<96 + Find(AsciiHigh, c, 1)>>
    IN  IF Len(text) = 0 THEN <<>>
        ELSE Bytes(CharAt(text, 1)) \o AsBytes(SubSeq(text, 2, Len(text)))

\* base64::engine::general_purpose::STANDARD.encode(bytes)
RECURSIVE Base64Encode(_)
Base64Encode(bytes) ==
    LET Sym(v) == CharAt(B64Alphabet, v + 1)
    IN  IF Len(bytes) = 0 THEN ""
        ELSE IF Len(bytes) = 1
        THEN Sym(bytes[1] \div 4) \o Sym((bytes[1] % 4) * 16) \o "=="
        ELSE IF Len(bytes) = 2
        THEN Sym(bytes[1] \div 4) \o Sym((bytes[1] % 4) * 16 + bytes[2] \div 16)
             \o Sym((bytes[2] % 16) * 4) \o "="
        ELSE Sym(bytes[1] \div 4) \o Sym((bytes[1] % 4) * 16 + bytes[2] \div 16)
             \o Sym((bytes[2] % 16) * 4 + bytes[3] \div 64) \o Sym(bytes[3] % 64)
             \o Base64Encode(SubSeq(bytes, 4, Len(bytes)))

\* the encoding with the fault of leaving the padding out (STANDARD_NO_PAD)
EncodeContent_no_pad(text) == TrimEndMatches(Base64Encode(AsBytes(text)), "=")

\* STANDARD.encode(params.content.as_bytes())
EncodeContent(text) == Base64Encode(AsBytes(text))

\* file_create: the request body
file_create_body(text, message) ==
    JObj(<<<<"content", JStr(EncodeContent(text))>>, <<"message", JStr(message)>>>>)

\* file_update: the request body
file_update_body(text, sha, message) ==
    JObj(<<<<"content", JStr(EncodeContent(text))>>, <<"sha", JStr(sha)>>,
           <<"message", JStr(message)>>>>)

(***************************************************************************)
(* SpecFile: a text is written with file_create or file_update, the        *)
(* backend keeps the content it was sent and serves it in a file object,   *)
(* as sent or broken into lines, and file_read renders that object.        *)
(***************************************************************************)
RECURSIVE WrapLines(_, _)
\* a newline after every width characters, none for width 0
WrapLines(s, width) ==
    IF width = 0 \/ Len(s) <= width THEN s \o (IF width = 0 THEN "" ELSE "\n")
    ELSE SubSeq(s, 1, width) \o "\n" \o WrapLines(SubSeq(s, width + 1, Len(s)), width)

FileTexts ==
    {"a", "ab", "abc", "hi\n", "hello world", "é", "€", "aé€", "x = 1;\n\ty();\n",
     "~~~", "{\"k\": [1, 2]}", "??>>", " ", "\n"}

WriteTools == {"file_create", "file_update"}

LineWidths == {0, 1, 4, 60}

\* the file object the backend serves for the content of a request body
ServedFile(body, width) ==
    JObj(<<<<"name", JStr("f.txt")>>, <<"path", JStr("src/f.txt")>>,
           <<"type", JStr("file")>>, <<"encoding", JStr("base64")>>,
           <<"content", JStr(WrapLines(Unwrap(AsStr(JGet(body, "content"))), width))>>>>
         \o (IF IsSome(JGet(body, "sha")) THEN <<<<"sha", Unwrap(JGet(body, "sha"))>>>>
             ELSE <<>>))

InitFile ==
    /\ file_text \in FileTexts
    /\ file_wire = <<>>
    /\ file_shown = None
    /\ IdleResolver
    /\ IdleClient
    /\ IdleTool
    /\ IdleFormat
    /\ IdleConfig
    /\ IdleError
    /\ IdleServer

\* file_create or file_update sends the text and the backend keeps it
WriteFile(t, width) ==
    /\ file_wire = <<>>
    /\ file_wire' = ServedFile(IF t = "file_create"
                               THEN file_create_body(file_text, "add f.txt")
                               ELSE file_update_body(file_text, "abc", "edit f.txt"),
                               width)
    /\ UNCHANGED <<file_text, file_shown, resolverVars, cliVars, toolVars, fmtVars,
                   cfgVars, errVars, conVars>>

\* file_read: response::format_file_content(&val)
ShowFile ==
    /\ file_wire # <<>>
    /\ file_shown = None
    /\ file_shown' = Some(format_file_content(file_wire))
    /\ UNCHANGED <<file_text, file_wire, resolverVars, cliVars, toolVars, fmtVars,
                   cfgVars, errVars, conVars>>

NextFile ==
    \/ \E t \in WriteTools, width \in LineWidths : WriteFile(t, width)
    \/ ShowFile

SpecFile == InitFile /\ [][NextFile]_vars

(***************************************************************************)
(* Properties of the Owner/Repo Resolution Chain (Spec)                    *)
(***************************************************************************)
\* the call recorded in the state has returned
Returned == resolved # Pending

\* both explicit coordinates are present and non-empty
CompletePair == IsSome(owner) /\ IsSome(repo) /\ Unwrap(owner) # "" /\ Unwrap(repo) # ""

\* the directory parameter is present and non-empty
DirectoryGiven == IsSome(directory) /\ Unwrap(directory) # ""

\* a Locator outcome seen through resolve_owner_repo: the pair on success,
\* the Locator's own error on failure
SameOutcome(res, loc) ==
    IF loc.ok
    THEN res.ok /\ res.val = <<loc.val.owner, loc.val.repo>>
    ELSE ~res.ok /\ res.kind = loc.kind /\ res.msg = loc.msg

\* C1: with both explicit owner and repo present and non-empty, the result is
\* exactly that pair, whatever the directory parameter and the cached default
\* are; the Repository Locator is not invoked and no error is returned.
C1_ExplicitPairVerbatim ==
    (Returned /\ CompletePair) =>
        /\ resolved = Ok(<<Unwrap(owner), Unwrap(repo)>>)
        /\ located = <<>>

C1_Witness ==
    /\ owner = Some("alice") /\ repo = Some("my-repo")
    /\ directory = Some("/nonexistent")
    /\ IsSome(detected_repo)
    /\ resolved = Ok(<<"alice", "my-repo">>)

\* C2: with an incomplete explicit pair (one of the two absent or empty) the
\* call returns what the same call with both owner and repo absent returns; in
\* particular owner = "alice", repo = "" with a cached default yields the
\* cached default.
C2_IncompletePairAsAbsent ==
    (Returned /\ ~CompletePair) =>
        /\ Outcome(resolved, located)
             = resolve_owner_repo(fs, None, None, directory, detected_repo)
        /\ (owner = Some("alice") /\ repo = Some("") /\ ~DirectoryGiven
              /\ IsSome(detected_repo)) =>
               resolved = Ok(<<Unwrap(detected_repo).owner, Unwrap(detected_repo).repo>>)

C2_Witness ==
    /\ owner = Some("alice") /\ repo = Some("") /\ directory = None
    /\ IsSome(detected_repo)
    /\ resolved = Ok(<<Unwrap(detected_repo).owner, Unwrap(detected_repo).repo>>)
    /\ resolved.val # <<"alice", "">>

\* C3: with no complete explicit pair and a non-empty directory, the outcome is
\* exactly the Repository Locator's outcome for that directory, its failure
\* included, also when a cached default is present; only that directory is
\* located.
C3_DirectoryOutcome ==
    (Returned /\ ~CompletePair /\ DirectoryGiven) =>
        /\ SameOutcome(resolved, resolve_repo(fs, Unwrap(directory)))
        /\ located = <<Unwrap(directory)>>

C3_Witness ==
    /\ ~CompletePair
    /\ directory = Some("/nonexistent")
    /\ IsSome(detected_repo)
    /\ resolve_repo(fs, ".").ok
    /\ resolved = RepoResolution("No .git/config found in /nonexistent")

\* C4: with no complete explicit pair and the directory absent or empty, the
\* result is the cached startup default verbatim when there is one, without a
\* Locator invocation, and otherwise exactly the Locator's outcome for ".".
C4_DefaultThenCwd ==
    (Returned /\ ~CompletePair /\ ~DirectoryGiven) =>
        IF IsSome(detected_repo)
        THEN /\ resolved = Ok(<<Unwrap(detected_repo).owner, Unwrap(detected_repo).repo>>)
             /\ located = <<>>
        ELSE /\ SameOutcome(resolved, resolve_repo(fs, "."))
             /\ located = <<".">>

\* the cached default answers although the working directory no longer resolves
C4_Witness ==
    /\ Returned /\ ~CompletePair
    /\ directory = Some("")
    /\ IsSome(detected_repo)
    /\ ~resolve_repo(fs, ".").ok
    /\ resolved.ok

(***************************************************************************)
(* Properties of the Repository Locator's URL parsing (SpecUrl)            *)
(***************************************************************************)
Letters ==
    { "a", "b", "c", "d", "e", "f", "g", "h", "i", "j", "k", "l", "m",
      "n", "o", "p", "q", "r", "s", "t", "u", "v", "w", "x", "y", "z",
      "A", "B", "C", "D", "E", "F", "G", "H", "I", "J", "K", "L", "M",
      "N", "O", "P", "Q", "R", "S", "T", "U", "V", "W", "X", "Y", "Z" }

\* ASCII letters, digits, '-', '_' and '.' only, and neither "." nor ".."
PlainName(s) ==
    /\ Len(s) > 0
    /\ \A i \in 1..Len(s) : CharAt(s, i) \in Letters \cup Digits \cup {"-", "_", "."}
    /\ s \notin {".", ".."}

\* dot-separated labels of ASCII letters and digits, each beginning with a letter
PlainHost(h) ==
    \A i \in 1..Len(SplitAll(h, ".")) :
        LET l == SplitAll(h, ".")[i]
        IN  /\ Len(l) > 0
            /\ CharAt(l, 1) \in Letters
            /\ \A j \in 1..Len(l) : CharAt(l, j) \in Letters \cup Digits

\* the claim's own condition on h, o and n: non-empty, without '/' or ':'
NoSlashNoColon(s) == Len(s) > 0 /\ FindAny(s, {"/", ":"}, 1) = 0

\* the URL was written from known coordinates and has been parsed
ParsedGiven == IsSome(given) /\ parsed # Pending

\* C5, as stated: for every host h, owner o and name n (non-empty, without '/'
\* or ':') the five URL forms all parse to {owner: o, name: n}.
C5_AllFormsParse ==
    (ParsedGiven /\ Unwrap(given).user = "git"
       /\ NoSlashNoColon(Unwrap(given).host)
       /\ NoSlashNoColon(Unwrap(given).owner)
       /\ NoSlashNoColon(Unwrap(given).name)) =>
        parsed = Ok(RepoInfo(Unwrap(given).owner, Unwrap(given).name))

\* C5, amended: the five URL forms all parse to {owner: o, name: n} for every
\* host h of dot-separated letter-initial alphanumeric labels and every o and n
\* that hold only ASCII letters, digits, '-', '_' and '.', are neither "." nor
\* "..", with n not ending in ".git".
C5_PlainFormsParse ==
    (ParsedGiven /\ Unwrap(given).user = "git"
       /\ PlainHost(Unwrap(given).host)
       /\ PlainName(Unwrap(given).owner)
       /\ PlainName(Unwrap(given).name)
       /\ ~EndsWith(Unwrap(given).name, ".git")) =>
        parsed = Ok(RepoInfo(Unwrap(given).owner, Unwrap(given).name))

C5_Witness ==
    /\ given = Some([form |-> "ssh_git", user |-> "git", host |-> "git.example.com",
                     owner |-> "org.git", name |-> "projorg"])
    /\ parsed = Ok(RepoInfo("org.git", "projorg"))

\* C6: the cleaned path is split on '/'; the Locator fails with
\* RepoResolution, naming the cleaned path, exactly when there are fewer than
\* two segments, and otherwise returns the first segment as owner and the
\* second as name, whatever follows them.
C6_FirstTwoSegments ==
    (IsSome(path) /\ parsed # Pending) =>
        LET cleaned == TrimMatches(TrimEndMatches(Unwrap(path), ".git"), "/")
            segs    == SplitAll(cleaned, "/")
        IN  IF Len(segs) < 2
            THEN /\ ~parsed.ok
                 /\ parsed.kind = "RepoResolution"
                 /\ EndsWith(parsed.msg, "path: " \o cleaned)
            ELSE parsed = Ok(RepoInfo(segs[1], segs[2]))

C6_Witness ==
    /\ url = "git@h:o/n/o"
    /\ path = Some("o/n/o")
    /\ parsed = Ok(RepoInfo("o", "n"))

\* C9: for every user name u, u@host:owner/name(.git) parses to {owner, name}
\* with no host or user text in the owner (stated for plain hosts and names,
\* for which the git@ form parses).
C9_AnyUserScp ==
    (ParsedGiven /\ Unwrap(given).form \in {"scp_git", "scp"}
       /\ PlainHost(Unwrap(given).host)
       /\ PlainName(Unwrap(given).owner)
       /\ PlainName(Unwrap(given).name)
       /\ ~EndsWith(Unwrap(given).name, ".git")) =>
        parsed = Ok(RepoInfo(Unwrap(given).owner, Unwrap(given).name))

\* the path with exactly one trailing ".git" removed, then the slashes around it
SingleSuffixStripped(p) ==
    TrimMatches(IF EndsWith(p, ".git") THEN SubSeq(p, 1, Len(p) - 4) ELSE p, "/")

\* C10: in every branch exactly one trailing ".git" is removed from the path
\* before it is split, so a path ending in name.git.git yields name.git.
C10_SingleSuffix ==
    (IsSome(path) /\ parsed # Pending) =>
        LET segs == SplitAll(SingleSuffixStripped(Unwrap(path)), "/")
        IN  IF Len(segs) < 2
            THEN ~parsed.ok
            ELSE parsed = Ok(RepoInfo(segs[1], segs[2]))

(***************************************************************************)
(* Properties of the Repository Locator's file scan (SpecLocator)          *)
(***************************************************************************)
\* line i of the file is a section header
IsHeader(lines, i) == StartsWith(Trim(lines[i]), "[")

\* line i lies inside a [remote "origin"] section: the nearest header above it
\* is the origin header
InOriginSection(lines, i) ==
    /\ ~IsHeader(lines, i)
    /\ \E j \in 1..(i - 1) :
          /\ Trim(lines[j]) = OriginHeader
          /\ \A k \in (j + 1)..i : ~IsHeader(lines, k)

\* line i assigns the key url: `url`, optional blanks, `=`
IsUrlKey(lines, i) ==
    LET t  == Trim(lines[i])
        eq == Find(t, "=", 1)
    IN  eq > 0 /\ Trim(SubSeq(t, 1, eq - 1)) = "url"

\* the file has an origin section that assigns url
HasOriginUrl(lines) ==
    \E i \in 1..Len(lines) : InOriginSection(lines, i) /\ IsUrlKey(lines, i)

\* C7: every RepoInfo the Locator returns successfully has a non-empty owner
\* and a non-empty name.
C7_NonEmptyCoordinates ==
    info.ok => (info.val.owner # "" /\ info.val.repo # "")

\* C8: for a directory with no .git/config the Locator fails naming the
\* missing file; for a config with no [remote "origin"] section, or with origin
\* sections that assign no url, it fails naming the missing origin remote; it
\* never succeeds in these cases.
C8_LocatorFailures ==
    (info # Pending) =>
        LET file == fs[dir]
        IN  /\ file.kind = "absent" =>
                 info = RepoResolution("No .git/config found in " \o dir)
            /\ (file.kind = "file" /\ ~HasOriginUrl(file.lines)) =>
                 info = RepoResolution("No remote 'origin' URL found in .git/config")

\* an origin section without url, followed by another remote that has one
C8_Witness ==
    /\ dir = "."
    /\ fs["."] = File(<<OriginHeader, "[remote \"upstream\"]", "url = solo">>)
    /\ info = RepoResolution("No remote 'origin' URL found in .git/config")

\* line i is the first url assignment that lies inside an origin section
IsFirstOriginUrl(lines, i) ==
    /\ InOriginSection(lines, i)
    /\ IsUrlKey(lines, i)
    /\ \A j \in 1..(i - 1) : ~(InOriginSection(lines, j) /\ IsUrlKey(lines, j))

\* the value line i assigns: what follows the first '=', trimmed
AssignedValue(lines, i) ==
    LET AfterEq(t) == Trim(SubSeq(t, Find(t, "=", 1) + 1, Len(t)))
    IN  AfterEq(Trim(lines[i]))

\* C24: the Locator's result is that of the first url assignment inside a
\* [remote "origin"] section and of nothing else: url keys of other
\* sections, before or after, and later url lines play no part, also when
\* that first url does not parse.
C24_FirstOriginUrlDecides ==
    (info # Pending /\ fs[dir].kind = "file") =>
        \A i \in 1..Len(fs[dir].lines) :
            IsFirstOriginUrl(fs[dir].lines, i)
                => info = parse_remote_url(AssignedValue(fs[dir].lines, i))

\* the first origin url does not parse and a url that would follows it
C24_Witness ==
    /\ dir = "."
    /\ fs["."] = File(<<OriginHeader, "url = solo", "url=https://h/team/app">>)
    /\ info # Pending
    /\ ~info.ok

(***************************************************************************)
(* Properties of the Unified Client (SpecClient)                           *)
(***************************************************************************)
\* the method returned after the network answered with a response
Replied == client_result # Pending /\ response.kind = "reply"

\* the API base of the client called
ApiBase ==
    IF backend = "Gitea" THEN GiteaClient_base_api(base_url)
    ELSE GitHubClient_base_api(base_url)

\* 401/403, other failures and 2xx, as the claim classifies them
StatusClassified ==
    /\ response.status \in {401, 403} => client_result = Auth
    /\ response.status = 404 => client_result.kind = "NotFound"
    /\ (~IsSuccess(response.status) /\ response.status \notin {401, 403, 404})
         => client_result = Api("HTTP " \o StatusLine(response.status) \o ": "
                                \o TextOrDefault(response.body))
    /\ IsSuccess(response.status) => client_result.kind \notin {"Auth", "NotFound", "Api"}

\* C11 as stated: for every verb on both backends and every body, 401 or 403
\* yields AuthenticationFailed with no body text, 404 yields NotFound carrying
\* API base + path, any other non-2xx yields ApiFailure with status and body,
\* and a 2xx yields none of the three.
C11_NotFoundBasePlusPath ==
    Replied =>
        /\ StatusClassified
        /\ response.status = 404 => client_result = NotFound(ApiBase \o req_path)

\* C11, amended: the same classification, where the NotFound of get-raw,
\* post-no-content, delete and delete-with-body carries API base + path as
\* written, and the NotFound of get, get-with-query, post, put and patch
\* carries the URL of the final response: the redirect target when redirects
\* were followed, else the request URL as parsed, query string included.
C11_NotFoundEffectiveUrl ==
    Replied =>
        /\ StatusClassified
        /\ (response.status = 404 /\ verb \in InlineVerbs)
             => client_result = NotFound(ApiBase \o req_path)
        /\ (response.status = 404 /\ verb \in JsonVerbs)
             => client_result =
                  NotFound(IF IsSome(response.via) THEN Unwrap(response.via)
                           ELSE Unwrap(UrlHref(ApiBase \o req_path, query)))

\* a 404 to a get-with-query on GitHub comes back as NotFound with the query
\* string in its URL
C11_Witness ==
    /\ backend = "GitHub" /\ base_url = "https://github.com"
    /\ verb = "get_with_query" /\ req_path = "/repos/o/r/issues/1"
    /\ query # <<>>
    /\ response = Reply(404, Some(""), None)
    /\ client_result = NotFound("https://api.github.com/repos/o/r/issues/1?page=1&limit=20")

(***************************************************************************)
(* Properties of the tools' error handling (SpecTool)                      *)
(***************************************************************************)
ToolReturned == tool_result # Pending

\* C12: in every tool invocation, an error returned by a client call is the
\* invocation's result, unchanged, and no further call is made after it; the
\* only exception is a NotFound from the wiki-page listing call.
C12_ErrorsPropagate ==
    ToolReturned =>
        \A i \in 1..Len(tool_calls) :
            ~tool_calls[i].result.ok =>
                \/ tool = "wiki_list" /\ tool_calls[i].result.kind = "NotFound"
                \/ tool_result = tool_calls[i].result /\ i = Len(tool_calls)

\* C13: wiki_list on Gitea turns a NotFound from the listing call into a
\* successful "no wiki pages" result, and returns every other client error
\* and every repository-resolution failure as the error it is.
C13_WikiListNotFound ==
    (ToolReturned /\ tool = "wiki_list" /\ client.platform = "Gitea") =>
        /\ ~ResolveParams(tool_params, detected_repo).ok
             => /\ tool_result = ResolveParams(tool_params, detected_repo)
                /\ tool_calls = <<>>
        /\ ResolveParams(tool_params, detected_repo).ok
             => /\ Len(tool_calls) = 1
                /\ tool_calls[1].verb = "get_with_query"
                /\ tool_calls[1].result.kind = "NotFound"
                     => tool_result = CallToolResult_success(
                            "No wiki pages found (wiki may be disabled for this repository).")
                /\ (~tool_calls[1].result.ok /\ tool_calls[1].result.kind # "NotFound")
                     => tool_result = tool_calls[1].result

\* the listing call of wiki_list on Gitea came back NotFound and the tool
\* succeeded
C13_Witness ==
    /\ tool = "wiki_list" /\ client.platform = "Gitea"
    /\ Len(tool_calls) = 1
    /\ tool_calls[1].result.kind = "NotFound"
    /\ tool_result.ok

WikiTools == {"wiki_list"}

NotAvailable ==
    CallToolResult_success(
        "Wiki CRUD is not available on GitHub. GitHub does not expose a wiki API.")

WikiOnGitHub == tool \in WikiTools /\ client.platform = "GitHub"

\* every request of the invocation is addressed to the resolved repository
AddressedTo(pair) ==
    \A i \in 1..Len(tool_calls) : StartsWith(tool_calls[i].path, RepoPath(pair, "/"))

\* C29: in every tool invocation the repository is resolved before the first
\* client call: every request is addressed to the resolved owner/repo, a failed
\* resolution is the invocation's result with no request made, and a wiki tool
\* on GitHub returns its not-available message with no request made.
C29_ResolutionPrecedesRequests ==
    ToolReturned =>
        /\ WikiOnGitHub => (tool_result = NotAvailable /\ tool_calls = <<>>)
        /\ (~WikiOnGitHub /\ ~ResolveParams(tool_params, detected_repo).ok)
             => /\ tool_result = ResolveParams(tool_params, detected_repo)
                /\ tool_calls = <<>>
        /\ tool_calls # <<>>
             => /\ ResolveParams(tool_params, detected_repo).ok
                /\ AddressedTo(ResolveParams(tool_params, detected_repo).val)

\* pr_merge was invoked without a repository name: it returned the resolution
\* error and sent nothing
C29_Witness ==
    /\ ToolReturned
    /\ tool = "pr_merge"
    /\ ~ResolveParams(tool_params, detected_repo).ok
    /\ tool_result = ResolveParams(tool_params, detected_repo)
    /\ tool_calls = <<>>

(***************************************************************************)
(* Properties of the Response Normalizer (SpecFormat)                      *)
(***************************************************************************)
HasRendered == rendered # Pending

\* str::contains
Contains(text, sub) ==
    \E i \in 1..(Len(text) - Len(sub) + 1) : SubSeq(text, i, i + Len(sub) - 1) = sub

\* C14: format_value returns non-empty text for every JSON value, the empty
\* object, the empty array, arrays of empty objects and objects whose fields
\* all render to nothing included.
C14_FormatValueNonEmpty ==
    (HasRendered /\ renderer = "format_value") => (rendered.ok /\ rendered.val # "")

\* C15: every renderer returns text for every JSON input; none panics, the
\* seven-character sha abbreviation on a sha of any length and content
\* included.
C15_RenderersNeverPanic == HasRendered => rendered.ok

\* the text a title is to be rendered as: itself when a string, else the
\* placeholder
TitleText(v) == UnwrapOr(AsStr(JGet(v, "title")), "(untitled)")

HasNumber(v) == IsSome(AsI64(JGet(v, "number")))

\* the list renderers show the title text of every item
ListShowsTitles ==
    (HasRendered /\ renderer \in {"format_issue_list", "format_pr_list"}) =>
        \A i \in 1..Len(json_input.a) : Contains(rendered.val, TitleText(json_input.a[i]))

HoldsString(v, k) == IsSome(AsStr(JGet(v, k)))

\* the identifying keys of a nested object, in the order of preference
IdentifyingKeys == <<"login", "name", "title", "full_name">>

\* the object v has an identifying field that holds a string
Identified(v) == \E n \in 1..4 : HoldsString(v, IdentifyingKeys[n])

\* the string of the first identifying field of v that holds one
Identifier(v) ==
    LET n == CHOOSE n \in 1..4 :
                 /\ HoldsString(v, IdentifyingKeys[n])
                 /\ \A k \in 1..(n - 1) : ~HoldsString(v, IdentifyingKeys[k])
    IN  Unwrap(AsStr(JGet(v, IdentifyingKeys[n])))

\* C25: format_value renders a field whose value is an object as the key
\* followed by the string of the first of login, name, title, full_name that
\* holds a string, and omits the field only when none of the four does.
C25_NestedObjectIdentifier ==
    (HasRendered /\ renderer = "format_value" /\ json_input.t = "obj") =>
        \A i \in 1..Len(json_input.m) :
            json_input.m[i][2].t = "obj" =>
                IF Identified(json_input.m[i][2])
                THEN Contains(rendered.val, "**" \o json_input.m[i][1] \o ":** "
                                              \o Identifier(json_input.m[i][2]))
                ELSE ~Contains(rendered.val, "**" \o json_input.m[i][1] \o ":**")

(***************************************************************************)
(* Properties of the Configuration Resolver (SpecConfig)                   *)
(***************************************************************************)
ConfigLoaded == config.kind # "pending"

\* the PlatformA base URL and token of the environment, under either name
GiteaUrlIn == OrElse(env.GITEA_URL, env.FORGEJO_REMOTE_URL)
GiteaTokenIn == OrElse(env.GITEA_TOKEN, env.FORGEJO_AUTH_TOKEN)

MissingParameter(detail) ==
    ~config.ok /\ config.kind = "MissingParam" /\ config.msg = detail

\* both credential families present and no explicit override
BothFamilies ==
    /\ ~IsSome(env.GIT_PLATFORM)
    /\ IsSome(env.GITHUB_TOKEN)
    /\ IsSome(GiteaUrlIn)
    /\ IsSome(GiteaTokenIn)

\* the origin remote of the working directory, "" when none can be read
OriginRemote == IF IsSome(git_output) THEN Trim(Unwrap(git_output)) ELSE ""

RemoteNamesGitHub == StrContains(OriginRemote, "github.com")

RemoteNamesGiteaHost ==
    /\ OriginRemote # ""
    /\ IsSome(GiteaHost(Unwrap(GiteaUrlIn)))
    /\ StrContains(OriginRemote, Unwrap(GiteaHost(Unwrap(GiteaUrlIn))))

DisambiguationMessage ==
    "Both GITHUB_TOKEN and GITEA_URL/GITEA_TOKEN are set. "
    \o "Set GIT_PLATFORM=github or GIT_PLATFORM=gitea to disambiguate."

\* C17: with both credential families present and no override, an origin
\* remote naming github.com gives a GitHub Config with the GitHub token, one
\* naming the configured Gitea host gives a Gitea Config with the Gitea base
\* URL and token, and any other (or none) fails with the disambiguation
\* message.
C17_RemoteSelectsPlatform ==
    (ConfigLoaded /\ BothFamilies) =>
        /\ RemoteNamesGitHub =>
              /\ config.ok
              /\ config.val.platform = "GitHub"
              /\ config.val.token = Unwrap(env.GITHUB_TOKEN)
        /\ RemoteNamesGiteaHost =>
              /\ config.ok
              /\ config.val.platform = "Gitea"
              /\ config.val.base_url = TrimEndMatches(Unwrap(GiteaUrlIn), "/")
              /\ config.val.token = Unwrap(GiteaTokenIn)
        /\ (~RemoteNamesGitHub /\ ~RemoteNamesGiteaHost) =>
              MissingParameter(DisambiguationMessage)

Override == Unwrap(env.GIT_PLATFORM)

\* the platform an override names, "" when it names none
OverridePlatform ==
    IF ToLowercase(Override) \in {"gitea", "forgejo"} THEN "Gitea"
    ELSE IF ToLowercase(Override) = "github" THEN "GitHub"
    ELSE ""

\* under an override: the Config, when there is one, is of the platform the
\* override names; the named platform's variables being set, there is one;
\* git is not run and its output makes no difference
OverrideDecides ==
    /\ config.ok => (OverridePlatform # "" /\ config.val.platform = OverridePlatform)
    /\ ~config.ok => config.kind = "MissingParam"
    /\ (OverridePlatform = "Gitea" /\ IsSome(GiteaUrlIn) /\ IsSome(GiteaTokenIn))
          => config.ok
    /\ (OverridePlatform = "GitHub" /\ IsSome(env.GITHUB_TOKEN)) => config.ok
    /\ git_calls = 0
    /\ \A g \in GitOutputs : from_env(env, g).ok = config.ok

\* C18 as stated: an override decides the platform whatever the credentials
\* and the remote, and an unrecognized override fails with MissingParameter
\* whose detail holds the override's value.
C18_OverrideNamesValue ==
    (ConfigLoaded /\ IsSome(env.GIT_PLATFORM)) =>
        /\ OverrideDecides
        /\ OverridePlatform = "" =>
              /\ ~config.ok
              /\ config.kind = "MissingParam"
              /\ Contains(config.msg, "GIT_PLATFORM=" \o Override \o " ")

\* C18: an override decides the platform whatever the credentials and the
\* remote, and an unrecognized override fails with MissingParameter whose
\* detail holds the override's value in lower case.
C18_OverrideSelects ==
    (ConfigLoaded /\ IsSome(env.GIT_PLATFORM)) =>
        /\ OverrideDecides
        /\ OverridePlatform = "" =>
              MissingParameter("GIT_PLATFORM=" \o ToLowercase(Override)
                               \o " is not recognized. Use 'gitea', 'forgejo', or 'github'.")

\* a mixed-case override chose Gitea although the GitHub token is set and the
\* origin remote is on github.com
C18_Witness ==
    /\ ConfigLoaded
    /\ env.GIT_PLATFORM = Some("Forgejo")
    /\ IsSome(env.GITHUB_TOKEN)
    /\ RemoteNamesGitHub
    /\ config.ok
    /\ config.val.platform = "Gitea"

\* C19: a failure for absent variables names every absent variable of the
\* rule that was selected.
C19_NamesEveryAbsent ==
    (ConfigLoaded /\ ~config.ok) =>
        /\ (IsSome(env.GIT_PLATFORM) /\ OverridePlatform = "Gitea") =>
              /\ ~IsSome(GiteaUrlIn) => Contains(config.msg, "GITEA_URL")
              /\ ~IsSome(GiteaTokenIn) => Contains(config.msg, "GITEA_TOKEN")
        /\ (IsSome(env.GIT_PLATFORM) /\ OverridePlatform = "GitHub") =>
              Contains(config.msg, "GITHUB_TOKEN")
        /\ (~IsSome(env.GIT_PLATFORM) /\ ~IsSome(env.GITHUB_TOKEN)) =>
              /\ Contains(config.msg, "GITEA_URL")
              /\ Contains(config.msg, "GITEA_TOKEN")
              /\ Contains(config.msg, "GITHUB_TOKEN")

\* the base URL the Config was built from
BaseUrlInput ==
    IF config.val.platform = "Gitea" THEN Unwrap(GiteaUrlIn)
    ELSE IF IsSome(env.GITHUB_URL) THEN Unwrap(env.GITHUB_URL)
    ELSE "https://github.com"

\* whole is part followed by slashes only
OnlySlashesRemoved(whole, part) ==
    /\ StartsWith(whole, part)
    /\ \A i \in (Len(part) + 1)..Len(whole) : CharAt(whole, i) = "/"

\* C20: the base_url of every Config produced does not end in '/', and is the
\* input base URL with nothing but its trailing slashes removed.
C20_BaseUrlTrimmed ==
    (ConfigLoaded /\ config.ok) =>
        /\ ~EndsWith(config.val.base_url, "/")
        /\ OnlySlashesRemoved(BaseUrlInput, config.val.base_url)

\* a Gitea Config detected from the remote, its input URL ending in two
\* slashes
C20_Witness ==
    /\ ConfigLoaded
    /\ config.ok
    /\ git_calls = 1
    /\ config.val.platform = "Gitea"
    /\ EndsWith(BaseUrlInput, "//")

\* C27: the token of every Config produced is of the platform's own family:
\* a GitHub Config holds the value of GITHUB_TOKEN and a Gitea Config the
\* value of GITEA_TOKEN (or FORGEJO_AUTH_TOKEN).
C27_TokenOfPlatform ==
    (ConfigLoaded /\ config.ok) =>
        /\ config.val.platform = "GitHub" =>
              /\ IsSome(env.GITHUB_TOKEN)
              /\ config.val.token = Unwrap(env.GITHUB_TOKEN)
        /\ config.val.platform = "Gitea" =>
              /\ IsSome(GiteaTokenIn)
              /\ config.val.token = Unwrap(GiteaTokenIn)

\* C28: without an override and with GITHUB_TOKEN set, from_env gives a
\* Config or fails with the disambiguation message, never with the failure
\* for no credentials.
C28_GitHubTokenSuffices ==
    (ConfigLoaded /\ ~IsSome(env.GIT_PLATFORM) /\ IsSome(env.GITHUB_TOKEN)) =>
        \/ config.ok
        \/ MissingParameter(DisambiguationMessage)

(***************************************************************************)
(* Properties of the tool boundary's error conversion (SpecError)          *)
(***************************************************************************)
Reported == IsSome(error_data)

\* C21: MissingParam, NotFound and Auth are answered with the invalid-params
\* code and every other GitxError with the internal-error code, and the
\* answer's message is the error's own text, its detail included.
C21_ErrorCodeByKind ==
    Reported =>
        /\ error.kind \in {"MissingParam", "NotFound", "Auth"}
              => Unwrap(error_data).code = "INVALID_PARAMS"
        /\ error.kind \in {"Api", "RepoResolution", "Http", "Json", "Other"}
              => Unwrap(error_data).code = "INTERNAL_ERROR"
        /\ Unwrap(error_data).message = Display(error)
        /\ Contains(Unwrap(error_data).message, error.msg)

\* a NotFound with its location was answered
C21_Witness ==
    /\ Reported
    /\ error = NotFound("https://h/api/v1/repos/o/r/issues/7")
    /\ Unwrap(error_data).code = "INVALID_PARAMS"

(***************************************************************************)
(* Properties of the server's resources and concurrent invocations         *)
(* (SpecServer)                                                            *)
(***************************************************************************)
Listed == IsSome(resource_reply) /\ Unwrap(resource_reply).request = "list"
Read == IsSome(resource_reply) /\ Unwrap(resource_reply).request = "read"
Answer == Unwrap(resource_reply).reply

\* the answer that lists the one resource of the detected repository
OneResource ==
    /\ Answer.ok
    /\ Len(Answer.val) = 1
    /\ Answer.val[1].uri = "repo://detected"
    /\ Answer.val[1].title =
           Some(Unwrap(detected_repo).owner \o "/" \o Unwrap(detected_repo).repo)

\* the answer that holds the detected owner and repo as JSON text
DetectedJson ==
    /\ Answer.ok
    /\ Len(Answer.val) = 1
    /\ Answer.val[1].text =
           "{\"owner\":" \o JsonToString(JStr(Unwrap(detected_repo).owner))
           \o ",\"repo\":" \o JsonToString(JStr(Unwrap(detected_repo).repo)) \o "}"

\* C22: list_resources answers the one resource repo://detected, titled
\* owner/repo, when a repository was detected and nothing otherwise;
\* read_resource succeeds, with the detected owner and repo as JSON, exactly
\* for repo://detected with a repository detected, and is RESOURCE_NOT_FOUND
\* otherwise; so reading repo://detected succeeds exactly when the list is
\* not empty.
C22_DetectedResource ==
    /\ Listed => IF IsSome(detected_repo) THEN OneResource
                 ELSE Answer.ok /\ Answer.val = <<>>
    /\ Read => IF Unwrap(resource_reply).uri = "repo://detected" /\ IsSome(detected_repo)
               THEN DetectedJson
               ELSE ~Answer.ok /\ Answer.val.code = "RESOURCE_NOT_FOUND"
    /\ (Read /\ Unwrap(resource_reply).uri = "repo://detected")
          => (Answer.ok <=> build_resource_list(detected_repo).val # <<>>)

\* repo://detected was read on a server that detected a repository
C22_Witness ==
    /\ Read
    /\ Unwrap(resource_reply).uri = "repo://detected"
    /\ IsSome(detected_repo)
    /\ Answer.ok

\* what the resolution step of task t gives from the task's own parameters,
\* the detected repository and the file system as it is
OwnResolution(t) ==
    resolve_owner_repo(fs, invocations[t].params.owner, invocations[t].params.repo,
                       invocations[t].params.directory, detected_repo).result

\* C23: whatever the tasks and the resource requests do and in whatever
\* order, the client (with its platform) and the detected repository stay as
\* GitxMcp::new left them, and a task's resolution is a function of its own
\* parameters, the detected repository and the file system, leaving every
\* other task as it was.
C23_NoSharedMutableState ==
    [][/\ srv_client' = srv_client
       /\ detected_repo' = detected_repo
       /\ \A t \in Tasks :
             (invocations[t].stage = "invoked" /\ invocations'[t].stage = "resolved")
                => /\ invocations'[t].resolved = OwnResolution(t)
                   /\ invocations'[t].params = invocations[t].params
                   /\ \A u \in Tasks \ {t} : invocations'[u] = invocations[u]]_vars

\* two tasks in flight at once have resolved different repositories, on a
\* file system that is no longer the one the server started on
C23_Witness ==
    /\ \A t \in Tasks : invocations[t].stage = "resolved" /\ invocations[t].resolved.ok
    /\ invocations[1].resolved # invocations[2].resolved
    /\ detected_repo # DetectRepo(fs)

\* a task given neither a complete owner and repo nor a directory
Defaulted(t) ==
    /\ invocations[t].stage = "resolved"
    /\ ~(/\ IsSome(invocations[t].params.owner) /\ IsSome(invocations[t].params.repo)
         /\ Unwrap(invocations[t].params.owner) # ""
         /\ Unwrap(invocations[t].params.repo) # "")
    /\ ~(/\ IsSome(invocations[t].params.directory)
         /\ Unwrap(invocations[t].params.directory) # "")

Fence == Backquote \o Backquote \o Backquote

\* C26: a non-empty text written with file_create or file_update and served
\* back in a file object, its base64 content broken into lines or not, is
\* shown by format_file_content with exactly that text between the fences.
C26_ContentRoundTrip ==
    IsSome(file_shown) =>
        Unwrap(file_shown) =
            "**File:** src/f.txt (0 bytes)"
            \o (IF IsSome(JGet(file_wire, "sha")) THEN "\n**SHA:** abc" ELSE "")
            \o "\n\n" \o Fence \o "\n" \o file_text \o "\n" \o Fence

\* a text of multi-byte characters came back through content broken into
\* lines of four characters
C26_Witness ==
    /\ IsSome(file_shown)
    /\ file_text = "aé€"
    /\ Contains(Unwrap(AsStr(JGet(file_wire, "content"))), "\n")
    /\ Contains(Unwrap(file_shown), "aé€")

====
